---------------------------- MODULE Spec2Model ----------------------------
(***************************************************************************)
(* A model of the pinning service's reconciliation engine:                 *)
(*   - JobsManager.run / Job.run / PinJob (src/providers/ipfs.ts and the   *)
(*     jobs-manager module exercised by test/unit/jobs.spec.ts),           *)
(*   - IpfsProvider.pin / unpin (src/providers/ipfs.ts),                   *)
(*   - BlockchainEventsProcessor.run / precache and the agreement event    *)
(*     handlers (src/processor/blockchain-events/agreement.ts),            *)
(*   - errorHandler / getProcessor / buildHandler (src/utils.ts).          *)
(***************************************************************************)
EXTENDS Integers, Sequences, FiniteSets, TLC

\* Absent values, one per type (TLC compares only values of the same type).
NULL == "null"                              \* a null string / reference
NoError == [kind |-> "none", at |-> 0]      \* no error
NoRetry == << >>                            \* entity.retry = null

(***************************************************************************)
(* Bounds of the model.                                                    *)
(***************************************************************************)
\* Largest retry ceiling (JobsManager option `retries`) explored.
MaxRetries == 3
\* Largest paid size, in megabytes, of a pin job.
MaxExpectedSize == 2
\* Number of newEvent emissions of the chain event source in the handoff model.
MaxEvents == 2
\* Number of newEvent emissions in the handler model.
MaxHandled == 2
\* Highest block number the chain reaches.
MaxBlock == 2
\* GC sweeps pending at the same time
MaxSweeps == 1
\* payout events of the garbage collector model
MaxPayouts == 1
\* Calls of initialize() by the application.
MaxInitCalls == 2

VARIABLES
  \* ---- configuration of one JobsManager.run(job) call (fixed by Init) ----
  retries,        \* the manager's retry ceiling N (options.retries)
  expectedSize,   \* megabytes the consumer paid for
  cumulativeSize, \* bytes the content store reports for the CID (object.stat)
  hasSwarm,       \* whether a SwarmModel row exists for the agreement
  script,         \* what the content store answers in attempt i: "ok" or an error kind
  \* ---- JobsManager.run(job) ----
  mgrPc,          \* position inside JobsManager.run / Job.run / PinJob._run
  attempt,        \* number of the current attempt (1-based), 0 before run()
  runResult,      \* the promise of run(): "pending", "resolved" or "rejected"
  runError,       \* the error run() rejected with, NoError otherwise
  \* ---- Job entity and its persisted record ----
  jobState,       \* entity.state
  jobRetry,       \* entity.retry: NoRetry or <<current, max>>
  jobError,       \* entity.errorMessage: NoError or an error
  jobStore,       \* the Job table: a sequence of persisted records
  entityId,       \* 0 while the entity was never saved, else its row in jobStore
  \* ---- PinJob ----
  swarmConnected, \* whether pre() opened a swarm connection still open
  bodyError,      \* NoError or the error the hooks/body of this attempt raised
  sizeChecked,    \* the size check of this attempt passed
  pinned,         \* the content store holds a pin for the CID
  \* ---- observation ----
  broadcasts,     \* sequence of notifications sent on the channel
  attemptLog,     \* per attempt, how it ended: "ok" or the error's kind
  bodyCalls,      \* number of invocations of the body (_run)
  pinAddCalls,    \* number of ipfs.pin.add calls
  afterCalls,     \* number of invocations of the after hook
  \* ---- BlockchainEventsProcessor ----
  hasCheckpoint,  \* getObject().lastFetchedBlockNumber is set
  forcePrecache,  \* options.forcePrecache
  handlers,       \* this.handlers: the handler groups getProcessor dispatches to
  procPc,         \* position inside run() / precache()
  newEventListener,     \* the listener attached to 'newEvent': "none", "pusher", "processor"
  initFinishedListener, \* precache's 'initFinished' listener is attached
  gcListener,     \* the collectPins listener is attached to 'newBlock'
  sweeps,         \* the pending invocations of the 'newBlock' listener, oldest first
  dataQueue,      \* precache's dataQueue
  replayIdx,      \* position of the for-of loop over dataQueue
  pinsTodo,       \* rows of Agreement.findAll() the recovery loop still has to visit
  inflight,       \* the pending invocations of this.processor, oldest first
  \* ---- chain event source and chain ----
  initFinishedEmitted,  \* the source signalled initFinished
  emitted,        \* number of newEvent emissions so far
  blockNumber,    \* the chain's head
  stopped,        \* the emitters stop() was called on: "events", "blocks"
  \* ---- stores ----
  agreements,     \* the Agreement table: a sequence of rows
  pinnedRefs,     \* the data references the content store has pinned
  \* ---- observation ----
  dispatched,     \* seq numbers of the events handed to this.processor, in order
  dispatchedEarly,\* seq numbers of events handed to this.processor before initFinished
  lost,           \* seq numbers of events emitted while no listener was attached
  overlapped,     \* some invocation started while another was pending
  lastDone,       \* the invocation that completed last
  ledger,         \* availableFunds of the agreement per the delivered events, in chain order
  ledgerExists,   \* whether the delivered events (or the initial store) created the agreement
  pinRequests,    \* number of manager.pin calls
  unpinRequests,  \* number of manager.unpin calls
  lastSweep,      \* the GC sweep that completed last
  cacheAgreements,\* the agreements the cache service returned to CacheEventsProcessor.precache
  cacheIdx,       \* position of precache's for-of loop over them
  cacheCalls,     \* the manager calls of CacheEventsProcessor.precache, in order
  \* ---- EventProcessor lifecycle ----
  initialized,    \* this.initialized
  emittersCreated,\* how many times initialize() created the emitters (or services)
  initCalls,      \* calls of initialize() by the application
  initErrors      \* calls of initialize() that threw 'Already Initialized'

jobConfig == << retries, expectedSize, cumulativeSize, hasSwarm, script >>
entityVars == << jobState, jobRetry, jobError, jobStore, entityId >>
runVars == << runResult, runError >>
pinJobVars == << swarmConnected, bodyError, sizeChecked, pinned >>
jobObs == << broadcasts, attemptLog, bodyCalls, pinAddCalls, afterCalls >>

jobVars == << jobConfig, mgrPc, attempt, runVars, entityVars, pinJobVars, jobObs >>

procConfig == << hasCheckpoint, forcePrecache, handlers >>
listenerVars == << newEventListener, initFinishedListener, gcListener >>
loopVars == << dataQueue, replayIdx, pinsTodo >>
sourceVars == << initFinishedEmitted, emitted, blockNumber, stopped >>
gcVars == << sweeps, lastSweep >>
cacheVars == << cacheAgreements, cacheIdx, cacheCalls >>
lifecycleVars == << cacheVars, initialized, emittersCreated, initCalls, initErrors >>
storeVars == << agreements, pinnedRefs >>
procObs == << dispatched, dispatchedEarly, lost, overlapped, lastDone, ledger,
              ledgerExists, pinRequests, unpinRequests >>

procVars == << procConfig, lifecycleVars, procPc, listenerVars, loopVars, inflight, sourceVars,
               storeVars, procObs, gcVars >>

vars == << jobVars, procVars >>

(***************************************************************************)
(* Errors.  An error is a record: its kind and the attempt that raised it  *)
(* (standing for its message, so errors of different attempts differ).     *)
(***************************************************************************)
StatErrorKinds == {"TimeoutError", "StatError"}
BodyErrorKinds == StatErrorKinds \cup {"PinAddError"}
SizeKind == "HashExceedsSizeError"

MkError(kind, i) == [kind |-> kind, at |-> i]

\* NonRecoverableError: the size-limit error is the only one.
IsNonRecoverable(e) == e.kind = SizeKind

\* The content store's answer in attempt i (attempts beyond the script succeed).
Script(i) == IF i \in DOMAIN script THEN script[i] ELSE "ok"

(***************************************************************************)
(* Sizes.  bytesToMegabytes(stats.CumulativeSize).gt(this.expectedSize)    *)
(***************************************************************************)
BytesInMegabyte == 1048576

\* A mutant: the size check never fires.
ExceedsExpectedSizeNever(bytes, mb) == FALSE

ExceedsExpectedSize(bytes, mb) == bytes > mb * BytesInMegabyte

\* Sizes the content store may report: on and around the megabyte boundaries.
CumulativeSizes ==
  UNION { {mb * BytesInMegabyte - 1, mb * BytesInMegabyte, mb * BytesInMegabyte + 1}
          : mb \in 1..MaxExpectedSize }

(***************************************************************************)
(* Job entity.                                                             *)
(***************************************************************************)
JobRow(name, type, st, rt, em) ==
  [name |-> name, type |-> type, state |-> st, retry |-> rt, errorMessage |-> em]

\* PinJob: super(hash, 'ipfs - pin')
JobRecord(st, rt, em) == JobRow("job", "ipfs - pin", st, rt, em)

\* A mutant: every save inserts a new row.
SaveEntityInserts(st, rt, em) ==
  /\ jobStore' = Append(jobStore, JobRecord(st, rt, em))
  /\ entityId' = Len(jobStore) + 1

\* entity.save(): insert on the first save, update the same row afterwards.
SaveEntity(st, rt, em) ==
  IF entityId = 0
    THEN /\ jobStore' = Append(jobStore, JobRecord(st, rt, em))
         /\ entityId' = Len(jobStore) + 1
    ELSE /\ jobStore' = [jobStore EXCEPT ![entityId] = JobRecord(st, rt, em)]
         /\ entityId' = entityId

\* setStateAndSave(state)
SetStateAndSave(st) ==
  /\ jobState' = st
  /\ SaveEntity(st, jobRetry, jobError)

Broadcast(msg) == broadcasts' = Append(broadcasts, msg)

Msg(code, retryNumber, totalRetries, error) ==
  [code |-> code, hash |-> "job", retryNumber |-> retryNumber,
   totalRetries |-> totalRetries, error |-> error]

(***************************************************************************)
(* Job.run(): RUNNING is persisted, then pre, the body, after, and the     *)
(* completion event.                                                       *)
(***************************************************************************)
\* A mutant: run() starts the hooks and the body without persisting RUNNING.
JobRunUnsaved ==
  /\ mgrPc = "jobRun"
  /\ jobState' = "RUNNING"
  /\ bodyError' = NoError
  /\ sizeChecked' = FALSE
  /\ mgrPc' = "pre"
  /\ UNCHANGED << jobConfig, attempt, runVars, jobRetry, jobError, jobStore, entityId,
                  swarmConnected, pinned, jobObs >>

JobRun ==
  /\ mgrPc = "jobRun"
  /\ SetStateAndSave("RUNNING")
  /\ bodyError' = NoError
  /\ sizeChecked' = FALSE
  /\ mgrPc' = "pre"
  /\ UNCHANGED << jobConfig, attempt, runVars, jobRetry, jobError, swarmConnected,
                  pinned, jobObs >>

\* PinJob.pre(): connect to the consumer's peer when a swarm row and the peer exist.
PinJobPre ==
  /\ mgrPc = "pre"
  /\ IF hasSwarm /\ Script(attempt) = "PreError"
       THEN \* dht.findPeer / swarm.connect rejects
            /\ bodyError' = MkError("PreError", attempt)
            /\ mgrPc' = "errored"
            /\ UNCHANGED swarmConnected
       ELSE /\ \/ hasSwarm /\ swarmConnected' = TRUE   \* the peer is found
               \/ UNCHANGED swarmConnected              \* no swarm row, or no such peer
            /\ mgrPc' = "body"
            /\ UNCHANGED bodyError
  /\ UNCHANGED << jobConfig, attempt, runVars, entityVars, sizeChecked, pinned, jobObs >>

\* A mutant: a failed body goes straight to the failure path, past the after hook.
PinJobStatSkipsAfter ==
  /\ mgrPc = "body"
  /\ bodyCalls' = bodyCalls + 1
  /\ IF Script(attempt) \in StatErrorKinds
       THEN /\ bodyError' = MkError(Script(attempt), attempt)
            /\ mgrPc' = "errored"
            /\ UNCHANGED sizeChecked
       ELSE IF ExceedsExpectedSize(cumulativeSize, expectedSize)
         THEN /\ bodyError' = MkError(SizeKind, attempt)
              /\ mgrPc' = "errored"
              /\ UNCHANGED sizeChecked
         ELSE /\ sizeChecked' = TRUE
              /\ mgrPc' = "pinAdd"
              /\ UNCHANGED bodyError
  /\ UNCHANGED << jobConfig, attempt, runVars, entityVars, swarmConnected, pinned,
                  broadcasts, attemptLog, pinAddCalls, afterCalls >>

\* PinJob._run(), first half: object.stat and the size check.
PinJobStat ==
  /\ mgrPc = "body"
  /\ bodyCalls' = bodyCalls + 1
  /\ IF Script(attempt) \in StatErrorKinds
       THEN \* the stat call times out ('Fetching size ... timed out!') or fails otherwise
            /\ bodyError' = MkError(Script(attempt), attempt)
            /\ mgrPc' = "after"
            /\ UNCHANGED sizeChecked
       ELSE IF ExceedsExpectedSize(cumulativeSize, expectedSize)
         THEN /\ bodyError' = MkError(SizeKind, attempt)
              /\ mgrPc' = "after"
              /\ UNCHANGED sizeChecked
         ELSE /\ sizeChecked' = TRUE
              /\ mgrPc' = "pinAdd"
              /\ UNCHANGED bodyError
  /\ UNCHANGED << jobConfig, attempt, runVars, entityVars, swarmConnected, pinned,
                  broadcasts, attemptLog, pinAddCalls, afterCalls >>

\* PinJob._run(), second half: ipfs.pin.add(cid).
PinJobPinAdd ==
  /\ mgrPc = "pinAdd"
  /\ pinAddCalls' = pinAddCalls + 1
  /\ IF Script(attempt) = "PinAddError"
       THEN /\ bodyError' = MkError("PinAddError", attempt)
            /\ UNCHANGED pinned
       ELSE /\ pinned' = TRUE
            /\ UNCHANGED bodyError
  /\ mgrPc' = "after"
  /\ UNCHANGED << jobConfig, attempt, runVars, entityVars, swarmConnected, sizeChecked,
                  broadcasts, attemptLog, bodyCalls, afterCalls >>

\* PinJob.after(): disconnect from the peer; runs whether the body failed or not.
JobAfter ==
  /\ mgrPc = "after"
  /\ afterCalls' = afterCalls + 1
  /\ swarmConnected' = FALSE
  /\ mgrPc' = IF bodyError = NoError THEN "finished" ELSE "errored"
  /\ UNCHANGED << jobConfig, attempt, runVars, entityVars, bodyError, sizeChecked,
                  pinned, broadcasts, attemptLog, bodyCalls, pinAddCalls >>

\* Success: FINISHED is persisted, then the completion event fires.
JobFinished ==
  /\ mgrPc = "finished"
  /\ SetStateAndSave("FINISHED")
  /\ attemptLog' = Append(attemptLog, "ok")
  /\ mgrPc' = "onSuccess"
  /\ UNCHANGED << jobConfig, attempt, runVars, jobRetry, jobError, pinJobVars,
                  broadcasts, bodyCalls, pinAddCalls, afterCalls >>

\* A mutant: the Job calls its body a second time before it reports the failure.
JobErroredRetriesItself ==
  /\ mgrPc = "errored"
  /\ IF bodyCalls <= attempt /\ bodyError.kind # "PreError"
       THEN /\ bodyError' = NoError
            /\ mgrPc' = "body"
            /\ UNCHANGED << entityVars, attemptLog, swarmConnected, sizeChecked, pinned >>
       ELSE /\ jobError' = bodyError
            /\ jobState' = "ERRORED"
            /\ SaveEntity("ERRORED", jobRetry, bodyError)
            /\ attemptLog' = Append(attemptLog, bodyError.kind)
            /\ mgrPc' = "onFailure"
            /\ UNCHANGED << jobRetry, pinJobVars >>
  /\ UNCHANGED << jobConfig, attempt, runVars, broadcasts, bodyCalls, pinAddCalls,
                  afterCalls >>

\* Failure: the error message and ERRORED are persisted, then the event fires with the error.
JobErrored ==
  /\ mgrPc = "errored"
  /\ jobError' = bodyError
  /\ jobState' = "ERRORED"
  /\ SaveEntity("ERRORED", jobRetry, bodyError)
  /\ attemptLog' = Append(attemptLog, bodyError.kind)
  /\ mgrPc' = "onFailure"
  /\ UNCHANGED << jobConfig, attempt, runVars, jobRetry, pinJobVars, broadcasts,
                  bodyCalls, pinAddCalls, afterCalls >>

\* Job.retry(current, max): record the attempt and persist BACKOFF.
JobRetry(current, max) ==
  /\ jobRetry' = << current, max >>
  /\ jobState' = "BACKOFF"
  /\ SaveEntity("BACKOFF", << current, max >>, jobError)

(***************************************************************************)
(* JobsManager.run(job)                                                    *)
(***************************************************************************)
\* IpfsProvider.pin: a PinJob is created and handed to the manager.
ProviderPin ==
  /\ mgrPc = "idle"
  /\ mgrPc' = "attempt"
  /\ UNCHANGED << jobConfig, attempt, runVars, entityVars, pinJobVars, jobObs >>

\* A mutant: an attempt starts without its start notification.
ManagerAttemptSilent ==
  /\ mgrPc = "attempt"
  /\ attempt' = attempt + 1
  /\ mgrPc' = "jobRun"
  /\ UNCHANGED << jobConfig, runVars, entityVars, pinJobVars, jobObs >>

\* The start of an attempt: the start notification, then job.run().
ManagerAttempt ==
  /\ mgrPc = "attempt"
  /\ attempt' = attempt + 1
  /\ Broadcast(Msg("I_HASH_START", 0, 0, NoError))
  /\ mgrPc' = "jobRun"
  /\ UNCHANGED << jobConfig, runVars, entityVars, pinJobVars, attemptLog, bodyCalls,
                  pinAddCalls, afterCalls >>

\* A mutant: run() resolves before the completed notification is sent.
ManagerOnSuccessUnannounced ==
  /\ mgrPc = "onSuccess"
  /\ runResult' = "resolved"
  /\ mgrPc' = "done"
  /\ UNCHANGED << jobConfig, attempt, runError, entityVars, pinJobVars, jobObs >>

\* The job finished: the completed notification, then run() resolves.
ManagerOnSuccess ==
  /\ mgrPc = "onSuccess"
  /\ Broadcast(Msg("I_HASH_PINNED", 0, 0, NoError))
  /\ runResult' = "resolved"
  /\ mgrPc' = "done"
  /\ UNCHANGED << jobConfig, attempt, runError, entityVars, pinJobVars, attemptLog,
                  bodyCalls, pinAddCalls, afterCalls >>

\* run() rejects with e after the terminal failure notification.
Reject(code, e) ==
  /\ Broadcast(Msg(code, 0, 0, e))
  /\ runResult' = "rejected"
  /\ runError' = e
  /\ mgrPc' = "done"
  /\ UNCHANGED entityVars

\* Retries are left: BACKOFF is persisted, the warning broadcast, the next attempt started.
Backoff ==
  /\ JobRetry(attempt, retries)
  /\ Broadcast(Msg("W_HASH_RETRY", attempt, retries, jobError))
  /\ mgrPc' = "attempt"
  /\ UNCHANGED << runVars, jobError >>

\* A mutant: the size-limit error is retried like any other.
ManagerOnFailureRetriesAll ==
  /\ mgrPc = "onFailure"
  /\ IF attempt < retries
       THEN Backoff
       ELSE Reject("E_GENERAL", jobError) /\ UNCHANGED jobError
  /\ UNCHANGED << jobConfig, attempt, pinJobVars, attemptLog, bodyCalls, pinAddCalls, afterCalls >>

\* A mutant: one attempt more than the ceiling allows.
ManagerOnFailureOffByOne ==
  /\ mgrPc = "onFailure"
  /\ IF IsNonRecoverable(jobError)
       THEN Reject("E_AGREEMENT_SIZE_LIMIT_EXCEEDED", jobError) /\ UNCHANGED jobError
       ELSE IF attempt <= retries
         THEN Backoff
         ELSE Reject("E_GENERAL", jobError) /\ UNCHANGED jobError
  /\ UNCHANGED << jobConfig, attempt, pinJobVars, attemptLog, bodyCalls, pinAddCalls, afterCalls >>

\* A mutant: the manager gives up one attempt early.
ManagerOnFailureGivesUpEarly ==
  /\ mgrPc = "onFailure"
  /\ IF IsNonRecoverable(jobError)
       THEN Reject("E_AGREEMENT_SIZE_LIMIT_EXCEEDED", jobError) /\ UNCHANGED jobError
       ELSE IF attempt < retries - 1
         THEN Backoff
         ELSE Reject("E_GENERAL", jobError) /\ UNCHANGED jobError
  /\ UNCHANGED << jobConfig, attempt, pinJobVars, attemptLog, bodyCalls, pinAddCalls, afterCalls >>

\* The failure policy: non-recoverable, recoverable with retries left, retries exhausted.
ManagerOnFailure ==
  /\ mgrPc = "onFailure"
  /\ IF IsNonRecoverable(jobError)
       THEN Reject("E_AGREEMENT_SIZE_LIMIT_EXCEEDED", jobError) /\ UNCHANGED jobError
       ELSE IF attempt < retries
         THEN Backoff
         ELSE Reject("E_GENERAL", jobError) /\ UNCHANGED jobError
  /\ UNCHANGED << jobConfig, attempt, pinJobVars, attemptLog, bodyCalls, pinAddCalls, afterCalls >>

(***************************************************************************)
(* SpecJobs: one IpfsProvider.pin call, for every retry ceiling, paid size,*)
(* content size and content-store script within the bounds.               *)
(***************************************************************************)
InitJobVars ==
  /\ mgrPc = "idle"
  /\ attempt = 0
  /\ runResult = "pending"
  /\ runError = NoError
  /\ jobState = "CREATED"
  /\ jobRetry = NoRetry
  /\ jobError = NoError
  /\ jobStore = << >>
  /\ entityId = 0
  /\ swarmConnected = FALSE
  /\ bodyError = NoError
  /\ sizeChecked = FALSE
  /\ pinned = FALSE
  /\ broadcasts = << >>
  /\ attemptLog = << >>
  /\ bodyCalls = 0
  /\ pinAddCalls = 0
  /\ afterCalls = 0



(***************************************************************************)
(* Properties of JobsManager.run (checked under SpecJobs / FairSpecJobs).  *)
(***************************************************************************)
\* What the hooks and body of attempt i do, given the content store's script.
PreFails(i) == hasSwarm /\ Script(i) = "PreError"

BodyOutcome(i) ==
  IF Script(i) \in StatErrorKinds THEN Script(i)
  ELSE IF cumulativeSize > expectedSize * BytesInMegabyte THEN SizeKind
  ELSE IF Script(i) = "PinAddError" THEN "PinAddError"
  ELSE "ok"

\* The body fails with a recoverable error in each of the attempts 1..k.
FailsRecoverably(k) ==
  \A i \in 1..k : ~PreFails(i) /\ BodyOutcome(i) \in BodyErrorKinds

CountCode(code) == Cardinality({i \in DOMAIN broadcasts : broadcasts[i].code = code})

LastCode == IF broadcasts = << >> THEN NULL ELSE broadcasts[Len(broadcasts)].code

Settled == mgrPc = "done"

\* The body fails on its first k attempts (k < N) and then succeeds.
FailsThenSucceeds(k) ==
  /\ k \in 0..(retries - 1)
  /\ FailsRecoverably(k)
  /\ ~PreFails(k + 1)
  /\ BodyOutcome(k + 1) = "ok"

C1_Safety ==
  \A k \in 0..(MaxRetries + 1) :
    FailsThenSucceeds(k) =>
      /\ runResult # "rejected"
      /\ bodyCalls <= k + 1
      /\ Settled =>
           /\ runResult = "resolved"
           /\ bodyCalls = k + 1
           /\ Len(jobStore) = 1
           /\ jobStore[1].state = "FINISHED"

\* C1: with retry ceiling N >= 1 and a body that fails recoverably on its first
\* k < N attempts and then succeeds, run(job) resolves, the body is invoked exactly
\* k+1 times, and the persisted Job record ends FINISHED.
C1_RetryUntilSuccess ==
  /\ [] C1_Safety
  /\ (\E k \in 0..(MaxRetries + 1) : FailsThenSucceeds(k)) ~> (runResult = "resolved")

\* The case of the unit test: 3 retries, two failures, then success.
C1_Witness ==
  /\ retries = 3
  /\ FailsThenSucceeds(2)
  /\ Settled
  /\ runResult = "resolved"
  /\ bodyCalls = 3

\* The body fails with a recoverable error in every one of the N attempts.
AlwaysFails == FailsRecoverably(retries)

C2_Common ==
  AlwaysFails =>
    /\ runResult # "resolved"
    /\ bodyCalls <= retries
    /\ Settled =>
         /\ runResult = "rejected"
         /\ runError = MkError(BodyOutcome(retries), retries)
         /\ bodyCalls = retries
         /\ Len(jobStore) = 1
         /\ jobStore[1].state = "ERRORED"

\* C2 as stated: ... and the record ends ERRORED with retry recorded as N-1 of N.
C2_Original ==
  /\ C2_Common
  /\ (AlwaysFails /\ Settled) => jobStore[1].retry = << retries - 1, retries >>

C2_Safety ==
  /\ C2_Common
  /\ (AlwaysFails /\ Settled) =>
        jobStore[1].retry = IF retries >= 2 THEN << retries - 1, retries >> ELSE NoRetry

\* C2 (amended): with retry ceiling N and a body that fails recoverably on every
\* attempt, run(job) rejects with the error of the N-th attempt, the body is invoked
\* exactly N times and never more, and the record ends ERRORED with retry N-1 of N
\* when N >= 2, and with retry still null when N = 1 (no retry was ever recorded).
C2_RetriesExhausted ==
  /\ [] C2_Safety
  /\ AlwaysFails ~> (runResult = "rejected")

\* The case of the unit test: 3 retries, three failures.
C2_Witness ==
  /\ retries = 3
  /\ AlwaysFails
  /\ Settled
  /\ runResult = "rejected"
  /\ jobStore[1].retry = << 2, 3 >>

\* The body raises the size-limit error in attempt j, after j-1 recoverable failures.
SizeErrorAt(j) ==
  /\ j \in 1..retries
  /\ FailsRecoverably(j - 1)
  /\ ~PreFails(j)
  /\ BodyOutcome(j) = SizeKind

C3_Safety ==
  \A j \in 1..(MaxRetries + 1) :
    SizeErrorAt(j) =>
      /\ runResult # "resolved"
      /\ bodyCalls <= j
      /\ CountCode("I_HASH_START") <= j
      /\ CountCode("W_HASH_RETRY") <= j - 1
      /\ Settled =>
           /\ runResult = "rejected"
           /\ runError = MkError(SizeKind, j)
           /\ bodyCalls = j
           /\ CountCode("I_HASH_START") = j
           /\ CountCode("W_HASH_RETRY") = j - 1
           /\ LastCode = "E_AGREEMENT_SIZE_LIMIT_EXCEEDED"
           /\ Len(jobStore) = 1
           /\ jobStore[1].state = "ERRORED"

\* C3: if the body raises HashExceedsSizeError on attempt j (1 <= j <= N), run(job)
\* rejects with that error right after attempt j whatever retry budget remains: the
\* body is invoked exactly j times, no further start or retry-warning notification
\* follows, the last notification is the size-limit failure, and the record ends ERRORED.
C3_NonRecoverableShortCircuit ==
  /\ [] C3_Safety
  /\ (\E j \in 1..(MaxRetries + 1) : SizeErrorAt(j)) ~> (runResult = "rejected")

\* The case of the unit test: a transient failure, then the size-limit error, 3 retries.
C3_Witness ==
  /\ retries = 3
  /\ SizeErrorAt(2)
  /\ Settled
  /\ runResult = "rejected"
  /\ bodyCalls = 2

OfferId == "offer"
OtherOfferId == "otherOffer"
Consumer == "consumer"
Token == "token"

\* A data reference as the contract emits it: an array of byte32 chunks, each a
\* sequence of characters ("0" stands for the null character, " " for a blank).
RawDataReference == << << " ", "/", "Q" >>, << "m", "0", "0" >> >>

RECURSIVE Concat(_)
Concat(chunks) == IF chunks = << >> THEN << >> ELSE Head(chunks) \o Concat(Tail(chunks))

RECURSIVE TrimLeft(_)
TrimLeft(str) == IF str # << >> /\ Head(str) = " " THEN TrimLeft(Tail(str)) ELSE str

RECURSIVE TrimRight(_)
TrimRight(str) ==
  IF str # << >> /\ str[Len(str)] = " " THEN TrimRight(SubSeq(str, 1, Len(str) - 1)) ELSE str

\* decodeByteArray: hexToAscii of every chunk, join, trim, remove the null characters.
decodeByteArray(fileReference) ==
  SelectSeq(TrimRight(TrimLeft(Concat(fileReference))), LAMBDA c : c # "0")

\* soliditySha3(consumer, ...dReference, token): a hash, injective on its arguments.
soliditySha3(consumer, dReference, token) == << consumer, dReference, token >>

AgreementRef == soliditySha3(Consumer, RawDataReference, Token)
NoRef == << >>

\* getBlockDate(eth, blockNumber): the timestamp of the block.
getBlockDate(blk) == blk * 15

NoEvent ==
  [seq |-> 0, event |-> "none", blockNumber |-> 0, provider |-> NULL,
   agreementReference |-> NoRef, amount |-> 0, agreementCreator |-> NULL,
   dataReference |-> << >>, token |-> NULL, size |-> 0, billingPeriod |-> 0,
   billingPrice |-> 0, availableFunds |-> 0]

NewAgreementEvent(seq, blk, provider) ==
  [NoEvent EXCEPT !.seq = seq, !.event = "NewAgreement", !.blockNumber = blk,
                  !.provider = provider, !.agreementCreator = Consumer,
                  !.dataReference = RawDataReference, !.token = Token, !.size = 1,
                  !.billingPeriod = 1, !.billingPrice = 10, !.availableFunds = 50]

AgreementEvent(seq, blk, name, amount) ==
  [NoEvent EXCEPT !.seq = seq, !.event = name, !.blockNumber = blk,
                  !.agreementReference = AgreementRef, !.amount = amount]

FundEvents == {"AgreementFundsDeposited", "AgreementFundsWithdrawn", "AgreementFundsPayout"}

\* The events of the handler model: untracked (seq 0), stamped with the chain's head.
HandledEvents(blk) ==
  { NewAgreementEvent(0, blk, OfferId), NewAgreementEvent(0, blk, OtherOfferId),
    AgreementEvent(0, blk, "AgreementStopped", 0),
    AgreementEvent(0, blk, "AgreementFundsDeposited", 100),
    AgreementEvent(0, blk, "AgreementFundsWithdrawn", 30),
    AgreementEvent(0, blk, "AgreementFundsPayout", 20) }

\* The events of the handoff model: tracked by their emission number.
TrackedEvents(seq, blk) ==
  { NewAgreementEvent(seq, blk, OfferId),
    AgreementEvent(seq, blk, "AgreementFundsDeposited", 100),
    AgreementEvent(seq, blk, "AgreementStopped", 0) }

(***************************************************************************)
(* The Agreement table.                                                    *)
(***************************************************************************)
NoAgreement ==
  [agreementReference |-> NoRef, dataReference |-> << >>, consumer |-> NULL,
   offerId |-> NULL, size |-> 0, billingPeriod |-> 0, billingPrice |-> 0,
   availableFunds |-> 0, expiredAtBlockNumber |-> 0, lastPayout |-> 0,
   isActive |-> FALSE]

RowsOf(id) == {i \in DOMAIN agreements : agreements[i].agreementReference = id}

\* Agreement.findByPk(id): the row, or NoAgreement (null).
findByPk(id) ==
  IF RowsOf(id) = {} THEN NoAgreement
  ELSE agreements[CHOOSE i \in RowsOf(id) : \A j \in RowsOf(id) : i <= j]

\* Agreement.upsert(data): update the given columns of the row with this primary
\* key, or insert a row (isActive takes the column's default, true).
upsert(table, data) ==
  IF \E i \in DOMAIN table : table[i].agreementReference = data.agreementReference
    THEN [i \in DOMAIN table |->
            IF table[i].agreementReference = data.agreementReference
              THEN [data EXCEPT !.isActive = table[i].isActive]
              ELSE table[i]]
    ELSE Append(table, [data EXCEPT !.isActive = TRUE])

\* agreement.save() after a change of one column.
SaveColumn(table, id, col, val) ==
  [i \in DOMAIN table |->
     IF table[i].agreementReference = id THEN [table[i] EXCEPT ![col] = val] ELSE table[i]]

\* periodPrice and hasSufficientFunds: the funds pay for at least one more period.
hasSufficientFunds(a) == a.availableFunds >= a.size * a.billingPrice

\* The row NewAgreement builds from the event.
NewAgreementData(ev) ==
  [NoAgreement EXCEPT
     !.agreementReference = soliditySha3(ev.agreementCreator, ev.dataReference, ev.token),
     !.dataReference = decodeByteArray(ev.dataReference),
     !.consumer = ev.agreementCreator,
     !.offerId = ev.provider,
     !.size = ev.size,
     !.billingPeriod = ev.billingPeriod,
     !.billingPrice = ev.billingPrice,
     !.availableFunds = ev.availableFunds,
     !.expiredAtBlockNumber = 0,
     !.lastPayout = getBlockDate(ev.blockNumber)]

(***************************************************************************)
(* Content store and provider.                                             *)
(***************************************************************************)
\* ipfs.pin.rm(cid): removes the pin, fails as not pinned when there is none, or
\* fails otherwise (transport).
UnpinOutcomes(ref) ==
  IF ref \in pinnedRefs THEN {"ok", "Error"} ELSE {"NotPinnedError", "Error"}

\* IpfsProvider.unpin awaits ipfs.pin.rm(cid) with no catch of its own: whatever the
\* store raises is raised to the caller of unpin.
UnpinRaises(res) == res # "ok"

\* IpfsProvider.pin as the handlers see it: one PinJob row, FINISHED and the content
\* pinned when run() resolves, ERRORED when it rejects.
PinJobRows(rows, ref, ok) ==
  Append(rows, JobRow(ref, "ipfs - pin", IF ok THEN "FINISHED" ELSE "ERRORED", NoRetry,
                      IF ok THEN NoError ELSE MkError("PinError", 1)))

(***************************************************************************)
(* this.processor(event): filterBlockchainEvents around the error boundary *)
(* around the handlers.  An invocation is a record; its pc is the await it *)
(* is suspended at.                                                        *)
(***************************************************************************)
NoInvocation ==
  [ev |-> NoEvent, via |-> "none", pc |-> "done", agr |-> NoAgreement, found |-> FALSE,
   unpins |-> 0, unpinRef |-> << >>, unpinRes |-> "none", unpinRaised |-> FALSE,
   pins |-> 0, pinArgs |-> << >>, msgs |-> << >>, outcome |-> "none",
   settled |-> "none"]

\* The arguments of manager.pin(dataReference, agreement.size, agreement.agreementReference).
PinArgs(agr) == << agr.dataReference, agr.size, agr.agreementReference >>

isEventWithProvider(ev) == ev.provider # NULL

\* buildHandler(handlers, events): the event names the group lists and the names its
\* handlers object has a function for.
buildHandler(fns, events) == [events |-> events, handlers |-> fns]

\* The agreement group: the five handler functions and the list that exports them.
AgreementEventNames ==
  {"NewAgreement", "AgreementFundsDeposited", "AgreementFundsWithdrawn",
   "AgreementFundsPayout", "AgreementStopped"}

AgreementGroup == buildHandler(AgreementEventNames, AgreementEventNames)

\* A mutant: every name counts as a key of the handlers object.
isValidEventAlways(value, fns) == TRUE

\* isValidEvent(value, handlers): value in handlers
isValidEvent(value, fns) == value \in fns

\* handlers.filter(handler => handler.events.includes(event.event))
ListingGroups(name) == {g \in handlers : name \in g.events}

\* event.event.startsWith('Agreement')
startsWithAgreement(name) == name \in FundEvents \cup {"AgreementStopped"}

\* callback(event): getProcessor's processor picks the handler by the event's name
\* and runs it to its first await.
CallbackInvocation(ev, via) ==
  [NoInvocation EXCEPT !.ev = ev, !.via = via,
                       !.pc = IF ev.event = "NewAgreement" THEN "upsert" ELSE "find"]

\* A mutant: no filter, every event goes to the handlers.
StartedInvocationUnfiltered(ev, via) == CallbackInvocation(ev, via)

\* The part of this.processor(event) that runs synchronously inside emit().
StartedInvocation(ev, via) ==
  LET inv == [NoInvocation EXCEPT !.ev = ev, !.via = via]
  IN  IF isEventWithProvider(ev) /\ ev.provider = OfferId
        THEN CallbackInvocation(ev, via)
      ELSE IF startsWithAgreement(ev.event)
        THEN [inv EXCEPT !.pc = "filterLookup"]
      ELSE [inv EXCEPT !.outcome = "dropped", !.settled = "resolved"]

RemoveAt(seq, i) == SubSeq(seq, 1, i - 1) \o SubSeq(seq, i + 1, Len(seq))

\* A mutant: the error boundary passes the handler's error on.
errorHandlerRethrows(outcome) ==
  IF outcome \in {"ok", "dropped"} THEN "resolved" ELSE "rejected"

\* errorHandler: fn(...args).catch(err => logger.error(err)): the promise it returns
\* resolves whatever fn raised.
errorHandler(outcome) == "resolved"

\* The invocation's promise settles behind the error boundary.
Complete(i, inv) ==
  /\ inflight' = RemoveAt(inflight, i)
  /\ lastDone' = [inv EXCEPT !.pc = "done", !.settled = errorHandler(inv.outcome)]

\* The invocation's promise rejects outside the error boundary.
Escape(i, inv) ==
  /\ inflight' = RemoveAt(inflight, i)
  /\ lastDone' = [inv EXCEPT !.pc = "done", !.settled = "rejected"]

Continue(i, inv) ==
  /\ inflight' = [inflight EXCEPT ![i] = inv]
  /\ UNCHANGED lastDone

\* this.processor(ev) is called: by the live listener or by the replay loop.
StartInvocation(ev, via) ==
  LET inv == StartedInvocation(ev, via)
  IN  /\ IF inv.pc = "done"
           THEN inflight' = inflight /\ lastDone' = inv
           ELSE inflight' = Append(inflight, inv) /\ UNCHANGED lastDone
      /\ dispatched' = IF ev.seq = 0 THEN dispatched ELSE Append(dispatched, ev.seq)
      /\ dispatchedEarly' =
           IF ev.seq # 0 /\ initFinishedListener /\ ~initFinishedEmitted
             THEN dispatchedEarly \cup {ev.seq} ELSE dispatchedEarly
      /\ overlapped' = (overlapped \/ inflight # << >>)

\* The filter's `await Agreement.findByPk(agreementReference)`.
FilterLookup(i) ==
  LET inv == inflight[i]
  IN  /\ inv.pc = "filterLookup"
      /\ IF findByPk(inv.ev.agreementReference) # NoAgreement
           THEN Continue(i, [inv EXCEPT !.pc = "find"])
           ELSE Complete(i, [inv EXCEPT !.outcome = "dropped"])
      /\ UNCHANGED << gcVars, jobVars, procConfig, lifecycleVars,
                      procPc, listenerVars, loopVars, sourceVars,
                      storeVars, dispatched, dispatchedEarly, lost, overlapped, ledger,
                      ledgerExists, pinRequests, unpinRequests >>

\* The filter's findByPk rejects (the store fails): the filter is outside the error
\* boundary, so the promise of this.processor(event) rejects.
FilterLookupFails(i) ==
  LET inv == inflight[i]
  IN  /\ inv.pc = "filterLookup"
      /\ Escape(i, [inv EXCEPT !.outcome = "LookupError"])
      /\ UNCHANGED << gcVars, jobVars, procConfig, lifecycleVars,
                      procPc, listenerVars, loopVars, sourceVars,
                      storeVars, dispatched, dispatchedEarly, lost, overlapped, ledger,
                      ledgerExists, pinRequests, unpinRequests >>

\* A mutant: a missing agreement is not noticed.
HandlerFindIgnoresMissing(i) ==
  LET inv == inflight[i]
      agr == findByPk(inv.ev.agreementReference)
  IN  /\ inv.pc = "find"
      /\ Continue(i, [inv EXCEPT !.agr = agr, !.found = TRUE, !.pc = "save"])
      /\ UNCHANGED << gcVars, jobVars, procConfig, lifecycleVars,
                      procPc, listenerVars, loopVars, sourceVars,
                      storeVars, dispatched, dispatchedEarly, lost, overlapped, ledger,
                      ledgerExists, pinRequests, unpinRequests >>

\* Stop / Deposit / Withdraw / Payout: `const agreement = await Agreement.findByPk(id)`.
HandlerFind(i) ==
  LET inv == inflight[i]
      agr == findByPk(inv.ev.agreementReference)
  IN  /\ inv.pc = "find"
      /\ IF agr = NoAgreement
           THEN Complete(i, [inv EXCEPT !.outcome = "EventError"])
           ELSE Continue(i, [inv EXCEPT !.agr = agr, !.found = TRUE, !.pc = "save"])
      /\ UNCHANGED << gcVars, jobVars, procConfig, lifecycleVars,
                      procPc, listenerVars, loopVars, sourceVars,
                      storeVars, dispatched, dispatchedEarly, lost, overlapped, ledger,
                      ledgerExists, pinRequests, unpinRequests >>

\* A mutant: a withdrawal is added to the funds.
FundsAfterAddsAll(ev, funds) == funds + ev.amount

\* availableFunds.plus(amount) for a deposit, .minus(amount) for a withdrawal or payout.
FundsAfter(ev, funds) ==
  IF ev.event = "AgreementFundsDeposited" THEN funds + ev.amount ELSE funds - ev.amount

\* The change and `await agreement.save()` of Stop / Deposit / Withdraw / Payout.
HandlerSave(i) ==
  LET inv == inflight[i]
      id == inv.agr.agreementReference
  IN  /\ inv.pc = "save"
      /\ CASE inv.ev.event = "AgreementStopped" ->
                /\ agreements' = SaveColumn(agreements, id, "isActive", FALSE)
                /\ Continue(i, [inv EXCEPT !.agr.isActive = FALSE, !.pc = "unpin"])
           [] inv.ev.event = "AgreementFundsPayout" ->
                /\ agreements' =
                     SaveColumn(SaveColumn(agreements, id, "lastPayout",
                                           getBlockDate(inv.ev.blockNumber)),
                                id, "availableFunds", FundsAfter(inv.ev, inv.agr.availableFunds))
                /\ Complete(i, [inv EXCEPT !.outcome = "ok"])
           [] OTHER ->
                /\ agreements' =
                     SaveColumn(agreements, id, "availableFunds",
                                FundsAfter(inv.ev, inv.agr.availableFunds))
                /\ Complete(i, [inv EXCEPT !.outcome = "ok"])
      /\ UNCHANGED << gcVars, jobVars, procConfig, lifecycleVars,
                      procPc, listenerVars, loopVars, sourceVars,
                      pinnedRefs, dispatched, dispatchedEarly, lost, overlapped, ledger,
                      ledgerExists, pinRequests, unpinRequests >>

\* A mutant: Agreement.create(data) in place of the upsert.
HandlerUpsertCreates(i) ==
  LET inv == inflight[i]
      data == NewAgreementData(inv.ev)
  IN  /\ inv.pc = "upsert"
      /\ agreements' = Append(agreements, [data EXCEPT !.isActive = TRUE])
      /\ Continue(i, [inv EXCEPT !.agr = data, !.found = TRUE, !.pc = "pin"])
      /\ UNCHANGED << gcVars, jobVars, procConfig, lifecycleVars,
                      procPc, listenerVars, loopVars, sourceVars,
                      pinnedRefs, dispatched, dispatchedEarly, lost, overlapped, ledger,
                      ledgerExists, pinRequests, unpinRequests >>

\* NewAgreement: `await getBlockDate(...)`, then `await Agreement.upsert(data)`.
HandlerUpsert(i) ==
  LET inv == inflight[i]
      data == NewAgreementData(inv.ev)
  IN  /\ inv.pc = "upsert"
      /\ agreements' = upsert(agreements, data)
      /\ Continue(i, [inv EXCEPT !.agr = data, !.found = TRUE, !.pc = "pin"])
      /\ UNCHANGED << gcVars, jobVars, procConfig, lifecycleVars,
                      procPc, listenerVars, loopVars, sourceVars,
                      pinnedRefs, dispatched, dispatchedEarly, lost, overlapped, ledger,
                      ledgerExists, pinRequests, unpinRequests >>

\* NewAgreement: `await options.manager.pin(dataReference, size, agreementReference)`.
HandlerPin(i) ==
  LET inv == inflight[i]
      ref == inv.agr.dataReference
  IN  /\ inv.pc = "pin"
      /\ pinRequests' = pinRequests + 1
      /\ \E ok \in BOOLEAN :
           /\ jobStore' = PinJobRows(jobStore, ref, ok)
           /\ pinnedRefs' = IF ok THEN pinnedRefs \cup {ref} ELSE pinnedRefs
           /\ LET called == [inv EXCEPT !.pins = @ + 1, !.pinArgs = PinArgs(inv.agr)]
              IN  IF ok
                    THEN Continue(i, [called EXCEPT !.pc = "broadcast"])
                    ELSE Complete(i, [called EXCEPT !.outcome = "PinError"])
      /\ UNCHANGED << gcVars, jobConfig, mgrPc, attempt, runVars, jobState, jobRetry, jobError,
                      entityId, pinJobVars, jobObs, procConfig, lifecycleVars, procPc, listenerVars,
                      loopVars, sourceVars, agreements, dispatched, dispatchedEarly, lost,
                      overlapped, ledger, ledgerExists, unpinRequests >>

\* A mutant: every unpin error is rethrown.
SwallowsUnpinErrorNever(res) == FALSE

\* AgreementStopped's catch: `if (e.code !== NotPinnedError.code) throw e`.
SwallowsUnpinError(res) == res = "NotPinnedError"

\* AgreementStopped: `await options.manager.unpin(agreement.dataReference)` in its
\* try/catch.  IpfsProvider.unpin calls ipfs.pin.rm directly: no Job, no Job row.
HandlerUnpin(i) ==
  LET inv == inflight[i]
      ref == inv.agr.dataReference
  IN  /\ inv.pc = "unpin"
      /\ unpinRequests' = unpinRequests + 1
      /\ \E res \in UnpinOutcomes(ref) :
           /\ pinnedRefs' = IF res = "ok" THEN pinnedRefs \ {ref} ELSE pinnedRefs
           /\ LET called == [inv EXCEPT !.unpins = @ + 1, !.unpinRef = ref,
                                         !.unpinRes = res,
                                         !.unpinRaised = UnpinRaises(res)]
              IN  IF ~UnpinRaises(res) \/ SwallowsUnpinError(res)
                    THEN Continue(i, [called EXCEPT !.pc = "broadcast"])
                    ELSE Complete(i, [called EXCEPT !.outcome = res])
      /\ UNCHANGED << gcVars, jobVars, procConfig, lifecycleVars,
                      procPc, listenerVars, loopVars, sourceVars,
                      agreements, dispatched, dispatchedEarly, lost, overlapped, ledger,
                      ledgerExists, pinRequests >>

\* `await broadcast(I_AGREEMENT_NEW | I_AGREEMENT_STOPPED, {agreementReference})`.
HandlerBroadcast(i) ==
  LET inv == inflight[i]
      code == IF inv.ev.event = "NewAgreement" THEN "I_AGREEMENT_NEW" ELSE "I_AGREEMENT_STOPPED"
  IN  /\ inv.pc = "broadcast"
      /\ Complete(i, [inv EXCEPT !.msgs = Append(@, code), !.outcome = "ok"])
      /\ UNCHANGED << gcVars, jobVars, procConfig, lifecycleVars,
                      procPc, listenerVars, loopVars, sourceVars,
                      storeVars, dispatched, dispatchedEarly, lost, overlapped, ledger,
                      ledgerExists, pinRequests, unpinRequests >>

(***************************************************************************)
(* BlockchainEventsProcessor: run(), precache() and the event source.      *)
(***************************************************************************)
\* What the chain says the funds of the agreement are after ev, events taken in the
\* order the source delivers them.
LedgerAfter(ev) ==
  IF ev.event = "NewAgreement" /\ ev.provider = OfferId THEN ev.availableFunds
  ELSE IF ev.event = "AgreementFundsDeposited" /\ ledgerExists THEN ledger + ev.amount
  ELSE IF ev.event \in FundEvents /\ ledgerExists THEN ledger - ev.amount
  ELSE ledger

Deliver(ev) ==
  /\ ledger' = LedgerAfter(ev)
  /\ ledgerExists' = (ledgerExists \/ (ev.event = "NewAgreement" /\ ev.provider = OfferId))

\* `if (!this.initialized) await this.initialize()` in run() and precache();
\* initialize() creates the emitters and sets this.initialized.
InitializeIfNeeded ==
  /\ initialized' = TRUE
  /\ emittersCreated' = IF initialized THEN emittersCreated ELSE emittersCreated + 1

\* A mutant: run() attaches no listener to 'newBlock'.
RunStartWithoutGc ==
  /\ procPc = "init"
  /\ IF ~hasCheckpoint /\ ~forcePrecache
       THEN /\ procPc' = "precache"
            /\ newEventListener' = "pusher"
            /\ initFinishedListener' = TRUE
       ELSE /\ procPc' = "live"
            /\ newEventListener' = "processor"
            /\ UNCHANGED initFinishedListener
  /\ InitializeIfNeeded
  /\ UNCHANGED << gcVars, gcListener, jobVars, procConfig, cacheVars, initCalls, initErrors,
                  loopVars, inflight, sourceVars, storeVars, procObs >>

\* run(): initialize(), then precache() when there is no checkpoint and precache is
\* not forced, else straight to the live listeners.
RunStart ==
  /\ procPc = "init"
  /\ IF ~hasCheckpoint /\ ~forcePrecache
       THEN /\ procPc' = "precache"
            /\ newEventListener' = "pusher"
            /\ initFinishedListener' = TRUE
            /\ UNCHANGED gcListener
       ELSE /\ procPc' = "live"
            /\ newEventListener' = "processor"
            /\ gcListener' = TRUE
            /\ UNCHANGED initFinishedListener
  /\ InitializeIfNeeded
  /\ UNCHANGED << gcVars, jobVars, procConfig, cacheVars, initCalls, initErrors, loopVars,
                  inflight, sourceVars, storeVars, procObs >>

\* A mutant: the buffer is never filled.
PushedDropsAll(queue, ev) == queue

\* dataQueuePusher: dataQueue.push(event)
Pushed(queue, ev) == Append(queue, ev)

\* The source emits 'newEvent' with ev: emit() calls whatever listener is attached.
EmitNewEvent(ev) ==
  /\ procPc \notin {"init", "rejected"}
  /\ emitted' = emitted + 1
  /\ ev.blockNumber = blockNumber
  /\ CASE newEventListener = "pusher" ->
            /\ dataQueue' = Pushed(dataQueue, ev)
            /\ Deliver(ev)
            /\ UNCHANGED << replayIdx, pinsTodo, inflight, dispatched, dispatchedEarly, lost,
                            overlapped, lastDone >>
       [] newEventListener = "processor" ->
            /\ StartInvocation(ev, "live")
            /\ Deliver(ev)
            /\ UNCHANGED << loopVars, lost >>
       [] OTHER ->
            /\ lost' = IF ev.seq = 0 THEN lost ELSE lost \cup {ev.seq}
            /\ UNCHANGED << loopVars, inflight, dispatched, dispatchedEarly, overlapped,
                            lastDone, ledger, ledgerExists >>
  /\ UNCHANGED << gcVars, stopped, jobVars, procConfig, lifecycleVars, procPc, listenerVars,
                  initFinishedEmitted,
                  blockNumber, storeVars, pinRequests, unpinRequests >>

\* The source emits 'initFinished', once: the handler detaches the pusher and starts
\* the replay loop.
EmitInitFinished ==
  /\ procPc = "precache"
  /\ ~initFinishedEmitted
  /\ initFinishedEmitted' = TRUE
  /\ newEventListener' = "none"
  /\ procPc' = "replay"
  /\ replayIdx' = 1
  /\ UNCHANGED << gcVars, stopped, gcListener, jobVars, procConfig, lifecycleVars,
                  initFinishedListener,
                  dataQueue, pinsTodo, inflight,
                  emitted, blockNumber, storeVars, procObs >>

\* `await _processor(event)` threw in the replay loop.
ReplayRejected == lastDone.via = "replay" /\ lastDone.settled = "rejected"

\* catch (e) { reject(e) }: precache() rejects and so does run(); the rest of the
\* queue is not replayed and no live listener is attached.
ReplayAbort ==
  /\ procPc = "replay"
  /\ inflight = << >>
  /\ ReplayRejected
  /\ procPc' = "rejected"
  /\ UNCHANGED << gcVars, jobVars, procConfig, lifecycleVars,
                  listenerVars, loopVars, inflight, sourceVars,
                  storeVars, procObs >>

\* A mutant: the loop does not await the processor.
ReplayNextNotAwaited ==
  /\ procPc = "replay"
  /\ ~ReplayRejected
  /\ replayIdx <= Len(dataQueue)
  /\ StartInvocation(dataQueue[replayIdx], "replay")
  /\ replayIdx' = replayIdx + 1
  /\ UNCHANGED << gcVars, jobVars, procConfig, lifecycleVars,
                  procPc, listenerVars, dataQueue, pinsTodo,
                  sourceVars, storeVars, lost, ledger, ledgerExists, pinRequests,
                  unpinRequests >>

\* for (const event of dataQueue) await this._processor(event)
ReplayNext ==
  /\ procPc = "replay"
  /\ inflight = << >>
  /\ ~ReplayRejected
  /\ replayIdx <= Len(dataQueue)
  /\ StartInvocation(dataQueue[replayIdx], "replay")
  /\ replayIdx' = replayIdx + 1
  /\ UNCHANGED << gcVars, jobVars, procConfig, lifecycleVars,
                  procPc, listenerVars, dataQueue, pinsTodo,
                  sourceVars, storeVars, lost, ledger, ledgerExists, pinRequests,
                  unpinRequests >>

\* resolve(); then `for (const agreement of await Agreement.findAll())`.
ReplayDone ==
  /\ procPc = "replay"
  /\ inflight = << >>
  /\ ~ReplayRejected
  /\ replayIdx > Len(dataQueue)
  /\ procPc' = "pins"
  /\ pinsTodo' = agreements
  /\ UNCHANGED << gcVars, jobVars, procConfig, lifecycleVars,
                  listenerVars, dataQueue, replayIdx, inflight,
                  sourceVars, storeVars, procObs >>

\* if (agreement.hasSufficientFunds) await this.manager.pin(dataReference, size)
PrecachePin ==
  /\ procPc = "pins"
  /\ pinsTodo # << >>
  /\ pinsTodo' = Tail(pinsTodo)
  /\ LET a == Head(pinsTodo)
     IN  IF hasSufficientFunds(a)
           THEN /\ pinRequests' = pinRequests + 1
                /\ \E ok \in BOOLEAN :
                     /\ jobStore' = PinJobRows(jobStore, a.dataReference, ok)
                     /\ pinnedRefs' = IF ok THEN pinnedRefs \cup {a.dataReference}
                                      ELSE pinnedRefs
                     /\ procPc' = IF ok THEN procPc ELSE "rejected"
           ELSE UNCHANGED << pinRequests, jobStore, pinnedRefs, procPc >>
  /\ UNCHANGED << gcVars, jobConfig, mgrPc, attempt, runVars, jobState, jobRetry, jobError,
                  entityId, pinJobVars, jobObs, procConfig, lifecycleVars, listenerVars, dataQueue,
                  replayIdx, inflight, sourceVars, agreements, dispatched, dispatchedEarly,
                  lost, overlapped, lastDone, ledger, ledgerExists, unpinRequests >>

\* precache() resolved: this.eventsEmitter.on('newEvent', this.processor)
AttachLive ==
  /\ procPc = "pins"
  /\ pinsTodo = << >>
  /\ procPc' = "live"
  /\ newEventListener' = "processor"
  /\ gcListener' = TRUE
  /\ UNCHANGED << gcVars, jobVars, procConfig, lifecycleVars,
                  initFinishedListener, loopVars, inflight,
                  sourceVars, storeVars, procObs >>

\* The chain grows by a block.
NewBlock ==
  /\ blockNumber < MaxBlock
  /\ blockNumber' = blockNumber + 1
  /\ UNCHANGED << gcVars, jobVars, procConfig, lifecycleVars,
                  procPc, listenerVars, loopVars, inflight,
                  initFinishedEmitted, emitted, stopped, storeVars, procObs >>

\* No GC sweep: the shape of one invocation of the 'newBlock' listener.
NoSweep ==
  [pc |-> "done", todo |-> << >>, cur |-> NoAgreement, unpinned |-> << >>,
   deactivated |-> << >>, outcome |-> "none"]

\* The agreement as an earlier run of the service left it in the store.
StoredAgreement ==
  [NewAgreementData(NewAgreementEvent(0, 0, OfferId)) EXCEPT !.isActive = TRUE]

InitProcState ==
  /\ cacheAgreements = << >>
  /\ cacheIdx = 1
  /\ cacheCalls = << >>
  /\ initialized = FALSE
  /\ emittersCreated = 0
  /\ initCalls = 0
  /\ initErrors = 0
  /\ procPc = "init"
  /\ newEventListener = "none"
  /\ initFinishedListener = FALSE
  /\ gcListener = FALSE
  /\ sweeps = << >>
  /\ lastSweep = NoSweep
  /\ stopped = {}
  /\ dataQueue = << >>
  /\ replayIdx = 1
  /\ pinsTodo = << >>
  /\ inflight = << >>
  /\ initFinishedEmitted = FALSE
  /\ emitted = 0
  /\ blockNumber = 1
  /\ dispatched = << >>
  /\ dispatchedEarly = {}
  /\ lost = {}
  /\ overlapped = FALSE
  /\ lastDone = NoInvocation
  /\ pinRequests = 0
  /\ unpinRequests = 0

\* this.handlers as the constructor sets it.  The offer group's module is not part of
\* the sources modelled here and none of its events occurs in the model.
InitProcVars ==
  /\ handlers = {AgreementGroup}
  /\ InitProcState

\* A fresh store.
InitEmptyStore ==
  /\ agreements = << >>
  /\ pinnedRefs = {}
  /\ ledger = 0
  /\ ledgerExists = FALSE

\* The job of the Jobs specifications, not yet handed to the manager.
InitIdleJob ==
  /\ retries = 1
  /\ expectedSize = 1
  /\ cumulativeSize = 0
  /\ hasSwarm = FALSE
  /\ script = [i \in 1..1 |-> "ok"]
  /\ InitJobVars

Invocation ==
  \E i \in DOMAIN inflight :
    \/ FilterLookup(i)
    \/ HandlerFind(i)
    \/ HandlerSave(i)
    \/ HandlerUpsert(i)
    \/ HandlerPin(i)
    \/ HandlerUnpin(i)
    \/ HandlerBroadcast(i)

RunProcessor ==
  \/ RunStart
  \/ EmitInitFinished
  \/ ReplayNext
  \/ ReplayDone
  \/ PrecachePin
  \/ AttachLive
  \/ NewBlock
  \/ Invocation

\* The store as an earlier run left it: empty, or holding the agreement, pinned or
\* already unpinned by a GC sweep.
InitStore ==
  \/ InitEmptyStore
  \/ /\ agreements = << StoredAgreement >>
     /\ pinnedRefs \in {{}, {StoredAgreement.dataReference}}
     /\ ledger = StoredAgreement.availableFunds
     /\ ledgerExists = TRUE

(***************************************************************************)
(* Spec: the processor handling every kind of event.                       *)
(***************************************************************************)
Init ==
  /\ InitIdleJob
  /\ hasCheckpoint \in BOOLEAN
  /\ forcePrecache \in BOOLEAN
  /\ InitProcVars
  /\ InitStore

EmitHandled ==
  /\ emitted < MaxHandled
  /\ \E ev \in HandledEvents(blockNumber) : EmitNewEvent(ev)

Next ==
  \/ EmitHandled
  \/ RunProcessor

Spec == Init /\ [][Next]_vars

(***************************************************************************)
(* SpecHandoff: the handoff from backlog to live mode, every emitted event *)
(* tracked by its emission number.                                         *)
(***************************************************************************)
InitHandoff ==
  /\ InitIdleJob
  /\ hasCheckpoint = FALSE
  /\ forcePrecache = FALSE
  /\ InitProcVars
  /\ InitStore

EmitTracked ==
  /\ emitted < MaxEvents
  /\ \E ev \in TrackedEvents(emitted + 1, blockNumber) : EmitNewEvent(ev)

NextHandoff ==
  \/ EmitTracked
  \/ RunProcessor

SpecHandoff == InitHandoff /\ [][NextHandoff]_vars

(***************************************************************************)
(* SpecJobs / FairSpecJobs: one IpfsProvider.pin call run by the manager,  *)
(* the processor idle.                                                     *)
(***************************************************************************)
InitJobs ==
  /\ retries \in 1..MaxRetries
  /\ expectedSize \in 1..MaxExpectedSize
  /\ cumulativeSize \in CumulativeSizes
  /\ hasSwarm \in BOOLEAN
  /\ script \in [1..retries ->
                   {"ok"} \cup BodyErrorKinds \cup (IF hasSwarm THEN {"PreError"} ELSE {})]
  /\ InitJobVars
  /\ hasCheckpoint = FALSE
  /\ forcePrecache = FALSE
  /\ InitProcVars
  /\ InitEmptyStore

NextJobs ==
  \/ ProviderPin /\ UNCHANGED procVars
  \/ ManagerAttempt /\ UNCHANGED procVars
  \/ JobRun /\ UNCHANGED procVars
  \/ PinJobPre /\ UNCHANGED procVars
  \/ PinJobStat /\ UNCHANGED procVars
  \/ PinJobPinAdd /\ UNCHANGED procVars
  \/ JobAfter /\ UNCHANGED procVars
  \/ JobFinished /\ UNCHANGED procVars
  \/ JobErrored /\ UNCHANGED procVars
  \/ ManagerOnSuccess /\ UNCHANGED procVars
  \/ ManagerOnFailure /\ UNCHANGED procVars

SpecJobs == InitJobs /\ [][NextJobs]_vars

\* The scheduler runs every continuation of a pending promise.
FairSpecJobs == SpecJobs /\ WF_vars(NextJobs)

(***************************************************************************)
(* Properties of the handoff from backlog to live mode (SpecHandoff).      *)
(***************************************************************************)
Seqs(queue) == [i \in DOMAIN queue |-> queue[i].seq]

Occurrences(s, x) == Cardinality({i \in DOMAIN s : s[i] = x})

ReplayFinished == procPc \in {"pins", "live", "rejected"}

\* C4: the events delivered while the backlog is ingested (before initFinished) are
\* exactly the buffered ones; none is dispatched before initFinished, and once the
\* replay loop has run they have been dispatched once each, in arrival order, ahead
\* of every other event.
C4_BufferedDispatchedInOrder ==
  initFinishedListener =>
    /\ dispatchedEarly = {}
    /\ Seqs(dataQueue) = [i \in 1..Len(dataQueue) |-> i]
    /\ procPc = "precache" => (Len(dataQueue) = emitted /\ dispatched = << >>)
    /\ procPc = "replay" => dispatched = SubSeq(Seqs(dataQueue), 1, replayIdx - 1)
    /\ ReplayFinished =>
         /\ Len(dispatched) >= Len(dataQueue)
         /\ SubSeq(dispatched, 1, Len(dataQueue)) = Seqs(dataQueue)
    /\ \A n \in 1..Len(dataQueue) : Occurrences(dispatched, n) <= 1

C4_Witness ==
  /\ initFinishedListener
  /\ ReplayFinished
  /\ Len(dataQueue) = 2
  /\ dispatched = << 1, 2 >>

\* C5: every newEvent emitted from the start of precache onward is dispatched exactly
\* once: none is emitted to no listener, none is dispatched twice, and once the
\* processor is live and idle every emitted event has been dispatched.
C5_NoEventLostInHandoff ==
  initFinishedListener =>
    /\ lost = {}
    /\ \A n \in 1..emitted : Occurrences(dispatched, n) <= 1
    /\ (procPc = "live" /\ inflight = << >>) =>
         \A n \in 1..emitted : Occurrences(dispatched, n) = 1

(***************************************************************************)
(* Properties of the handlers (Spec).                                      *)
(***************************************************************************)
Ids == {agreements[i].agreementReference : i \in DOMAIN agreements}

WithoutIsActive(a) == [a EXCEPT !.isActive = FALSE]

C6_OneRecordPerId == \A id \in Ids : Cardinality(RowsOf(id)) = 1

C6_Create ==
  \A i \in DOMAIN inflight :
    HandlerUpsert(i) =>
      LET ev == inflight[i].ev
          before == findByPk(AgreementRef)
          after == findByPk(AgreementRef)'
      IN  /\ Cardinality(RowsOf(AgreementRef))' = 1
          /\ after.consumer = ev.agreementCreator
          /\ after.offerId = ev.provider
          /\ after.dataReference = decodeByteArray(ev.dataReference)
          /\ after.size = ev.size
          /\ after.billingPeriod = ev.billingPeriod
          /\ after.billingPrice = ev.billingPrice
          /\ after.availableFunds = ev.availableFunds
          /\ after.lastPayout = getBlockDate(ev.blockNumber)
          /\ (before # NoAgreement
                /\ WithoutIsActive(before) = WithoutIsActive(NewAgreementData(ev)))
               => agreements' = agreements

\* C6: creation keys the record by soliditySha3(consumer, data reference, token):
\* there is never a second record for an id, a NewAgreement leaves one record holding
\* the event's values, and processing it again changes nothing.
C6_ReplayedCreationIsIdempotent == []C6_OneRecordPerId /\ [][C6_Create]_vars

C6_Witness ==
  /\ lastDone.ev.event = "NewAgreement"
  /\ lastDone.via = "replay"
  /\ lastDone.outcome = "ok"
  /\ \E i \in DOMAIN inflight :
       /\ inflight[i].ev = lastDone.ev
       /\ inflight[i].via = "replay"
       /\ inflight[i].pc = "pin"
  /\ Len(agreements) = 1

\* No invocation is running and none is waiting in the replay queue.
Quiescent == inflight = << >> /\ procPc \notin {"precache", "replay"}

\* C7: once the handlers have run one after another over the delivered events, the
\* stored availableFunds is the initial value plus the deposits minus the withdrawals
\* and payouts, whether the events went through the replay queue or were live.
C7_FundsFollowChain ==
  (Quiescent /\ ~overlapped /\ ledgerExists) =>
    /\ findByPk(AgreementRef) # NoAgreement
    /\ findByPk(AgreementRef).availableFunds = ledger

C7_Witness ==
  /\ Quiescent
  /\ ~overlapped
  /\ procPc = "live"
  /\ Len(dataQueue) = 1
  /\ dataQueue[1].event = "AgreementFundsDeposited"
  /\ lastDone.via = "live"
  /\ lastDone.ev.event = "AgreementFundsWithdrawn"
  /\ lastDone.outcome = "ok"
  /\ findByPk(AgreementRef).availableFunds = 120

Invocations == {inflight[i] : i \in DOMAIN inflight} \cup {lastDone}

StopHandled(inv) == inv.ev.event = "AgreementStopped" /\ inv.found

\* C8: a Stop for an existing agreement has isActive = false saved before it unpins,
\* asks for exactly one unpin, of the agreement's dataReference, and when that unpin
\* succeeds or fails as not pinned the handler completes and broadcasts the
\* agreement-stopped notification.
C8_StopUnpinsOnce ==
  \A inv \in Invocations :
    StopHandled(inv) =>
      /\ inv.pc # "save" => ~findByPk(inv.ev.agreementReference).isActive
      /\ inv.pc \in {"broadcast", "done"} =>
           /\ inv.unpins = 1
           /\ inv.unpinRef = findByPk(inv.ev.agreementReference).dataReference
      /\ (inv.pc = "done" /\ inv.unpinRes \in {"ok", "NotPinnedError"}) =>
           /\ inv.outcome = "ok"
           /\ inv.msgs = << "I_AGREEMENT_STOPPED" >>

C8_Witness ==
  /\ StopHandled(lastDone)
  /\ lastDone.unpinRes = "NotPinnedError"
  /\ lastDone.outcome = "ok"
  /\ lastDone.msgs = << "I_AGREEMENT_STOPPED" >>
  /\ pinnedRefs = {}

\* C9: an unpin of a reference the content store reports as not pinned returns to its
\* caller without raising, and leaves no failed or retried job behind.
C9_AbsentUnpinDoesNotRaise ==
  \A inv \in Invocations :
    inv.unpinRes = "NotPinnedError" =>
      /\ ~inv.unpinRaised
      /\ inv.unpins = 1
      /\ \A r \in DOMAIN jobStore : jobStore[r].type = "ipfs - pin"

(***************************************************************************)
(* Properties of the Job record (SpecJobs).                                *)
(***************************************************************************)
JobTransitions ==
  { << "CREATED", "RUNNING" >>, << "RUNNING", "FINISHED" >>, << "RUNNING", "BACKOFF" >>,
    << "BACKOFF", "RUNNING" >>, << "RUNNING", "ERRORED" >>, << "BACKOFF", "ERRORED" >> }

\* C12: the Job's state changes only along CREATED -> RUNNING -> FINISHED,
\* RUNNING -> BACKOFF -> RUNNING and RUNNING/BACKOFF -> ERRORED: nothing leaves
\* FINISHED or ERRORED, and BACKOFF is entered only from RUNNING.
C12_StateMachine ==
  [][jobState' # jobState => << jobState, jobState' >> \in JobTransitions]_vars

\* C13: retry is non-null only in BACKOFF and ERRORED; a Job that is CREATED, RUNNING
\* or FINISHED has retry = null.
C13_RetryOnlyInBackoffOrErrored ==
  jobRetry # NoRetry => jobState \in {"BACKOFF", "ERRORED"}

(***************************************************************************)
(* More properties of the processor (Spec).                                *)
(***************************************************************************)
\* C14: once the handlers have completed, an Agreement is active only if its funds
\* are sufficient (a withdrawal or payout that leaves too little deactivates it).
C14_ActiveOnlyWithFunds ==
  Quiescent =>
    \A r \in DOMAIN agreements : agreements[r].isActive => hasSufficientFunds(agreements[r])

AgreementScoped ==
  {"AgreementStopped", "AgreementFundsDeposited", "AgreementFundsWithdrawn",
   "AgreementFundsPayout"}

Relevant(ev) ==
  \/ ev.provider = OfferId
  \/ ev.event \in AgreementScoped /\ findByPk(ev.agreementReference) # NoAgreement

InPipeline(inv) ==
  \/ inv.pc \in {"find", "save", "upsert", "pin", "unpin", "broadcast"}
  \/ inv.pc = "done" /\ inv.outcome \notin {"none", "dropped"}

C15_Passed ==
  \A inv \in Invocations :
    /\ InPipeline(inv) => Relevant(inv.ev)
    /\ inv.outcome = "dropped" =>
         /\ inv.ev.provider # OfferId
         /\ ~inv.found /\ inv.pins = 0 /\ inv.unpins = 0 /\ inv.msgs = << >>

C15_Lookup ==
  \A i \in DOMAIN inflight :
    FilterLookup(i) =>
      /\ Len(inflight') < Len(inflight) <=> ~Relevant(inflight[i].ev)
      /\ Len(inflight') < Len(inflight) =>
           /\ lastDone'.outcome = "dropped"
           /\ UNCHANGED << agreements, pinnedRefs, jobStore, pinRequests, unpinRequests >>

\* C15: an event reaches the handlers iff its provider is this offer, or it is an
\* agreement-scoped event whose agreement is in the store; every other event is
\* dropped and changes no Agreement, requests no pin or unpin and broadcasts nothing.
C15_FilterPassesOnlyRelevant == []C15_Passed /\ [][C15_Lookup]_vars

C15_Witness ==
  /\ lastDone.outcome = "dropped"
  /\ lastDone.ev.event = "AgreementFundsDeposited"
  /\ \E i \in DOMAIN inflight :
       inflight[i].ev.event = "NewAgreement" /\ inflight[i].pc = "upsert"

\* C18: run() does the precache iff there is no checkpoint or precache is forced.
C18_PrecacheWhenNoCheckpointOrForced ==
  procPc # "init" => (initFinishedListener <=> (~hasCheckpoint \/ forcePrecache))

\* C19: in live mode at most one invocation of the pipeline is in progress.
C19_LiveOneAtATime == procPc = "live" => Len(inflight) <= 1

(***************************************************************************)
(* SpecErrors: the handoff model with a store whose lookups can fail in    *)
(* the filter, and with the handler pipeline also called on its own (the   *)
(* processor getProcessor returns, without the relevance filter).          *)
(***************************************************************************)
\* getProcessor(handlers)(ev): the exported handlers behind the error boundary.
HandleDirect(ev) ==
  /\ procPc = "live"
  /\ emitted' = emitted + 1
  /\ inflight' = Append(inflight, CallbackInvocation(ev, "direct"))
  /\ overlapped' = (overlapped \/ inflight # << >>)
  /\ UNCHANGED << gcVars, jobVars, procConfig, lifecycleVars, procPc, listenerVars, loopVars,
                  initFinishedEmitted, blockNumber, stopped, storeVars, dispatched,
                  dispatchedEarly, lost, lastDone, ledger, ledgerExists, pinRequests,
                  unpinRequests >>

EmitDirect ==
  /\ emitted < MaxEvents
  /\ \E ev \in TrackedEvents(emitted + 1, blockNumber) : HandleDirect(ev)

StoreFails == \E i \in DOMAIN inflight : FilterLookupFails(i)

NextErrors ==
  \/ EmitTracked
  \/ EmitDirect
  \/ StoreFails
  \/ ReplayAbort
  \/ RunProcessor

SpecErrors == InitHandoff /\ [][NextErrors]_vars

(***************************************************************************)
(* Properties of the error boundary (SpecErrors).                          *)
(***************************************************************************)
HandlerErrors == {"EventError", "PinError", "Error"}

\* C16: an error raised in a handler, or in the pin or unpin it awaits, stays behind
\* the error boundary: the promise of that event resolves, and the replay loop is
\* aborted only by a failure outside the handlers, so later events are dispatched.
C16_HandlerErrorsDoNotEscape ==
  /\ \A inv \in Invocations : inv.outcome \in HandlerErrors => inv.settled = "resolved"
  /\ (procPc = "rejected" /\ replayIdx <= Len(dataQueue)) =>
       lastDone.outcome = "LookupError"

C16_Witness ==
  /\ procPc = "replay"
  /\ lastDone.via = "replay"
  /\ lastDone.outcome = "PinError"
  /\ lastDone.settled = "resolved"
  /\ \E i \in DOMAIN inflight : inflight[i].ev.seq = lastDone.ev.seq + 1

C17_Failed ==
  \A inv \in Invocations :
    inv.outcome = "EventError" =>
      /\ ~inv.found
      /\ inv.pins = 0 /\ inv.unpins = 0 /\ inv.msgs = << >>
      /\ inv.settled = "resolved"

C17_Find ==
  \A i \in DOMAIN inflight :
    (HandlerFind(i) /\ findByPk(inflight[i].ev.agreementReference) = NoAgreement) =>
      /\ Len(inflight') < Len(inflight)
      /\ lastDone'.outcome = "EventError"
      /\ UNCHANGED << agreements, pinnedRefs, jobStore, pinRequests, unpinRequests >>

\* C17: a Stop, Deposit, Withdraw or Payout handler called for a reference that is
\* not in the store fails with the not-found error: no Agreement is created or
\* changed, no unpin is requested, nothing is broadcast, and the event's promise
\* resolves so the next event is processed.
C17_MissingAgreementFailsCleanly == []C17_Failed /\ [][C17_Find]_vars

C17_Witness ==
  /\ lastDone.outcome = "EventError"
  /\ lastDone.ev.event = "AgreementStopped"
  /\ agreements = << >>
  /\ \E i \in DOMAIN inflight : inflight[i].ev.seq = lastDone.ev.seq + 1

(***************************************************************************)
(* SpecPinning: live mode with the NewAgreement handler's pin run by the   *)
(* JobsManager step by step (the PinJob of SpecJobs), and the unpin of     *)
(* AgreementStopped as a call to the content store that takes time.        *)
(***************************************************************************)
procRest ==
  << procConfig, lifecycleVars, procPc, listenerVars, loopVars, sourceVars, agreements, dispatched,
     dispatchedEarly, lost, overlapped, ledger, ledgerExists, unpinRequests, gcVars >>

\* A mutant: the handler goes on to the broadcast without asking for the pin.
HandlerPinStartSkips(i) ==
  LET inv == inflight[i]
  IN  /\ inv.pc = "pin"
      /\ Continue(i, [inv EXCEPT !.pc = "broadcast"])
      /\ UNCHANGED << jobVars, procRest, pinnedRefs, pinRequests >>

\* manager.pin(...): IpfsProvider.pin creates the PinJob and hands it to the manager.
HandlerPinStart(i) ==
  LET inv == inflight[i]
  IN  /\ inv.pc = "pin"
      /\ ProviderPin
      /\ pinRequests' = pinRequests + 1
      /\ Continue(i, [inv EXCEPT !.pins = @ + 1, !.pinArgs = PinArgs(inv.agr),
                                 !.pc = "pinning"])
      /\ UNCHANGED << procRest, pinnedRefs >>

\* A mutant: the handler goes on to its broadcast however the pin settled.
HandlerPinDoneIgnoresFailure(i) ==
  LET inv == inflight[i]
  IN  /\ inv.pc = "pinning"
      /\ mgrPc = "done"
      /\ Continue(i, [inv EXCEPT !.pc = "broadcast"])
      /\ UNCHANGED << jobVars, procRest, pinnedRefs, pinRequests >>

\* `await this.jobsManager.run(job)` settles.
HandlerPinDone(i) ==
  LET inv == inflight[i]
  IN  /\ inv.pc = "pinning"
      /\ mgrPc = "done"
      /\ IF runResult = "resolved"
           THEN Continue(i, [inv EXCEPT !.pc = "broadcast"])
           ELSE Complete(i, [inv EXCEPT !.outcome = "PinError"])
      /\ UNCHANGED << jobVars, procRest, pinnedRefs, pinRequests >>

\* ipfs.pin.add took effect in the content store.
PinJobPinAddInStore ==
  /\ PinJobPinAdd
  /\ pinnedRefs' = IF pinned' THEN pinnedRefs \cup {decodeByteArray(RawDataReference)}
                   ELSE pinnedRefs
  /\ UNCHANGED << procRest, inflight, lastDone, pinRequests >>

\* IpfsProvider.unpin: `await this.ipfs.pin.rm(cid)` is sent.
HandlerUnpinStart(i) ==
  LET inv == inflight[i]
  IN  /\ inv.pc = "unpin"
      /\ Continue(i, [inv EXCEPT !.unpinRef = inv.agr.dataReference, !.pc = "unpinning"])
      /\ UNCHANGED << jobVars, procRest, pinnedRefs, pinRequests >>

\* ipfs.pin.rm settles; AgreementStopped's try/catch.
HandlerUnpinDone(i) ==
  LET inv == inflight[i]
      ref == inv.unpinRef
  IN  /\ inv.pc = "unpinning"
      /\ unpinRequests' = unpinRequests + 1
      /\ \E res \in UnpinOutcomes(ref) :
           /\ pinnedRefs' = IF res = "ok" THEN pinnedRefs \ {ref} ELSE pinnedRefs
           /\ LET called == [inv EXCEPT !.unpins = @ + 1, !.unpinRes = res,
                                         !.unpinRaised = UnpinRaises(res)]
              IN  IF ~UnpinRaises(res) \/ SwallowsUnpinError(res)
                    THEN Continue(i, [called EXCEPT !.pc = "broadcast"])
                    ELSE Complete(i, [called EXCEPT !.outcome = res])
      /\ UNCHANGED << gcVars, jobVars, procConfig, lifecycleVars,
                      procPc, listenerVars, loopVars, sourceVars,
                      agreements, dispatched, dispatchedEarly, lost, overlapped, ledger,
                      ledgerExists, pinRequests >>

PinningInvocation ==
  \E i \in DOMAIN inflight :
    \/ FilterLookup(i)
    \/ HandlerFind(i)
    \/ HandlerSave(i)
    \/ HandlerUpsert(i)
    \/ HandlerPinStart(i)
    \/ HandlerPinDone(i)
    \/ HandlerUnpinStart(i)
    \/ HandlerUnpinDone(i)
    \/ HandlerBroadcast(i)

\* One creation event for this offer, then stop events for its agreement.
PinningEvents(n, blk) ==
  IF n = 0 THEN {NewAgreementEvent(0, blk, OfferId)}
  ELSE {AgreementEvent(0, blk, "AgreementStopped", 0)}

EmitPinning ==
  /\ emitted < MaxHandled
  /\ \E ev \in PinningEvents(emitted, blockNumber) : EmitNewEvent(ev)

InitPinning ==
  /\ retries \in 1..MaxRetries
  /\ expectedSize = NewAgreementEvent(0, 0, OfferId).size
  /\ cumulativeSize \in {expectedSize * BytesInMegabyte, expectedSize * BytesInMegabyte + 1}
  /\ hasSwarm = FALSE
  /\ script \in [1..retries -> {"ok", "TimeoutError", "PinAddError"}]
  /\ InitJobVars
  /\ hasCheckpoint = TRUE
  /\ forcePrecache = FALSE
  /\ InitProcVars
  /\ InitEmptyStore

NextPinning ==
  \/ RunStart
  \/ EmitPinning
  \/ PinningInvocation
  \/ ManagerAttempt /\ UNCHANGED procVars
  \/ JobRun /\ UNCHANGED procVars
  \/ PinJobPre /\ UNCHANGED procVars
  \/ PinJobStat /\ UNCHANGED procVars
  \/ PinJobPinAddInStore
  \/ JobAfter /\ UNCHANGED procVars
  \/ JobFinished /\ UNCHANGED procVars
  \/ JobErrored /\ UNCHANGED procVars
  \/ ManagerOnSuccess /\ UNCHANGED procVars
  \/ ManagerOnFailure /\ UNCHANGED procVars

SpecPinning == InitPinning /\ [][NextPinning]_vars

\* The scheduler runs every continuation of a pending promise.
FairSpecPinning == SpecPinning /\ WF_vars(NextPinning)

(***************************************************************************)
(* Properties of pin and unpin against the content store (SpecPinning).    *)
(***************************************************************************)
PinBodyInProgress == mgrPc \in {"pre", "body", "pinAdd", "after"}

UnpinInProgress(ref) ==
  \E i \in DOMAIN inflight : inflight[i].pc = "unpinning" /\ inflight[i].unpinRef = ref

\* C11: a pin and an unpin of the same reference are never in progress against the
\* content store at the same time.
C11_SingleFlightPerName ==
  ~(PinBodyInProgress /\ UnpinInProgress(decodeByteArray(RawDataReference)))

Creation(inv) == inv.ev.event = "NewAgreement" /\ inv.ev.provider = OfferId

C20_OnePinRequested ==
  \A inv \in Invocations :
    (Creation(inv) /\ (inv.pc \in {"pinning", "broadcast"} \/ inv.outcome = "ok")) =>
      /\ inv.pins = 1
      /\ inv.pinArgs =
           << decodeByteArray(inv.ev.dataReference), inv.ev.size,
              soliditySha3(inv.ev.agreementCreator, inv.ev.dataReference, inv.ev.token) >>

StoreSucceedsInTime ==
  /\ cumulativeSize <= expectedSize * BytesInMegabyte
  /\ \E k \in 0..(MaxRetries + 1) : FailsThenSucceeds(k)

CreationPinning == \E i \in DOMAIN inflight : inflight[i].pc = "pinning"

\* C20: a processed creation event for this offer requests one pin, of the decoded
\* dataReference with the agreement's size and reference, and when the content is
\* within the paid size and the store succeeds within the retry ceiling the pin
\* completes: the content is pinned and run() resolves.
C20_CreationEventuallyPins ==
  /\ []C20_OnePinRequested
  /\ (StoreSucceedsInTime /\ CreationPinning) ~> (pinned /\ runResult = "resolved")

C20_Witness ==
  /\ Creation(lastDone)
  /\ lastDone.outcome = "ok"
  /\ lastDone.msgs = << "I_AGREEMENT_NEW" >>
  /\ attempt = 2
  /\ pinned
  /\ decodeByteArray(RawDataReference) \in pinnedRefs

(***************************************************************************)
(* SpecGC: live mode with the garbage collector.  Every 'newBlock' calls   *)
(* errorHandler(collectPinsClosure(manager)); nobody awaits the listener,  *)
(* so sweeps overlap each other and the event handlers.  stop() stops both *)
(* emitters.                                                               *)
(***************************************************************************)
OtherRawDataReference == << << "/", "Q" >>, << "n", "0" >> >>

\* A second agreement of this offer an earlier run left in the store.
OtherStoredAgreement ==
  [StoredAgreement EXCEPT
     !.agreementReference = soliditySha3(Consumer, OtherRawDataReference, Token),
     !.dataReference = decodeByteArray(OtherRawDataReference)]

\* expiredIn <= 0: the funds do not pay for one more billing period.
Expired(a) == ~hasSufficientFunds(a)

\* Agreement.findAll({ where: { isActive: true } })
ActiveAgreements(table) == SelectSeq(table, LAMBDA a : a.isActive)

\* ipfs.pin.rm(cid) for the n-th unpin request: the store fails while the script says
\* so, and then answers by what it holds.
ScriptedUnpinOutcomes(ref, n) ==
  IF Script(n) = "Error" THEN {"Error"}
  ELSE IF ref \in pinnedRefs THEN {"ok"} ELSE {"NotPinnedError"}

gcRest ==
  << jobVars, procConfig, lifecycleVars,
     procPc, listenerVars, loopVars, inflight, initFinishedEmitted,
     emitted, stopped, dispatched, dispatchedEarly, lost, overlapped, lastDone, ledger,
     ledgerExists, pinRequests >>

\* The sweep's promise settled: errorHandler logged what it rejected with.
CompleteSweep(i, sw) ==
  /\ sweeps' = RemoveAt(sweeps, i)
  /\ lastSweep' = [sw EXCEPT !.pc = "done"]

\* A mutant: stop() leaves the new-block emitter running.
StopOnlyEvents ==
  /\ procPc = "live"
  /\ stopped = {}
  /\ stopped' = {"events"}
  /\ UNCHANGED << jobVars, procConfig, lifecycleVars, procPc, listenerVars, loopVars, inflight,
                  initFinishedEmitted, emitted, blockNumber, storeVars, procObs, gcVars >>

\* stop(): this.eventsEmitter.stop(); this.newBlockEmitter.stop()
Stop ==
  /\ procPc = "live"
  /\ stopped = {}
  /\ stopped' = {"events", "blocks"}
  /\ UNCHANGED << jobVars, procConfig, lifecycleVars, procPc, listenerVars, loopVars, inflight,
                  initFinishedEmitted, emitted, blockNumber, storeVars, procObs, gcVars >>

\* The new-block emitter emits 'newBlock': the chain grew (heights past MaxBlock are
\* not told apart) and, when attached, the GC listener is called.
EmitNewBlock ==
  /\ "blocks" \notin stopped
  /\ Len(sweeps) < MaxSweeps
  /\ blockNumber' = IF blockNumber < MaxBlock THEN blockNumber + 1 ELSE blockNumber
  /\ sweeps' = IF gcListener THEN Append(sweeps, [NoSweep EXCEPT !.pc = "findAll"])
               ELSE sweeps
  /\ UNCHANGED << jobVars, procConfig, lifecycleVars, procPc, listenerVars, loopVars, inflight,
                  initFinishedEmitted, emitted, stopped, storeVars, procObs, lastSweep >>

\* The loop runs on, skipping the agreements whose expiry has not passed, up to its
\* next await (the unpin of an expired agreement) or to its end.
RECURSIVE SkipUnexpired(_)
SkipUnexpired(rows) ==
  IF rows # << >> /\ ~Expired(Head(rows)) THEN SkipUnexpired(Tail(rows)) ELSE rows

Advance(i, sw) ==
  LET rest == SkipUnexpired(sw.todo)
  IN  IF rest = << >>
        THEN CompleteSweep(i, [sw EXCEPT !.todo = << >>, !.outcome = "ok"])
        ELSE /\ sweeps' = [sweeps EXCEPT ![i] = [sw EXCEPT !.cur = Head(rest),
                                                            !.todo = Tail(rest),
                                                            !.pc = "unpin"]]
             /\ UNCHANGED lastSweep

\* for (const agreement of await Agreement.findAll({ where: { isActive: true } }))
GcFindAll(i) ==
  LET sw == sweeps[i]
  IN  /\ sw.pc = "findAll"
      /\ Advance(i, [sw EXCEPT !.todo = ActiveAgreements(agreements)])
      /\ UNCHANGED << gcRest, blockNumber, storeVars, unpinRequests >>

\* await manager.unpin(agreement.dataReference), the not-pinned error swallowed; any
\* other error leaves the loop and is logged by errorHandler.
GcUnpin(i) ==
  LET sw == sweeps[i]
      ref == sw.cur.dataReference
  IN  /\ sw.pc = "unpin"
      /\ unpinRequests' = unpinRequests + 1
      /\ \E res \in ScriptedUnpinOutcomes(ref, unpinRequests + 1) :
           /\ pinnedRefs' = IF res = "ok" THEN pinnedRefs \ {ref} ELSE pinnedRefs
           /\ LET called == [sw EXCEPT !.unpinned = Append(@, ref)]
              IN  IF ~UnpinRaises(res) \/ SwallowsUnpinError(res)
                    THEN /\ sweeps' = [sweeps EXCEPT ![i] = [called EXCEPT !.pc = "save"]]
                         /\ UNCHANGED lastSweep
                    ELSE CompleteSweep(i, [called EXCEPT !.outcome = res])
      /\ UNCHANGED << gcRest, blockNumber, agreements >>

\* agreement.isActive = false; await agreement.save(); then on with the loop.
GcSave(i) ==
  LET sw == sweeps[i]
      id == sw.cur.agreementReference
  IN  /\ sw.pc = "save"
      /\ agreements' = SaveColumn(agreements, id, "isActive", FALSE)
      /\ Advance(i, [sw EXCEPT !.deactivated = Append(@, id)])
      /\ UNCHANGED << gcRest, blockNumber, pinnedRefs, unpinRequests >>

GcInvocation ==
  \E i \in DOMAIN sweeps :
    \/ GcFindAll(i)
    \/ GcUnpin(i)
    \/ GcSave(i)

\* A payout that leaves the first agreement without the funds of one more period.
GcEvents(blk) == {AgreementEvent(0, blk, "AgreementFundsPayout", 45)}

EmitGc ==
  /\ emitted < MaxPayouts
  /\ "events" \notin stopped
  /\ \E ev \in GcEvents(blockNumber) : EmitNewEvent(ev)

GcHandlers ==
  \E i \in DOMAIN inflight :
    \/ FilterLookup(i)
    \/ HandlerFind(i)
    \/ HandlerSave(i)

InitGC ==
  /\ retries = 1
  /\ expectedSize = 1
  /\ cumulativeSize = 0
  /\ hasSwarm = FALSE
  /\ script \in [1..retries -> {"ok", "Error"}]
  /\ InitJobVars
  /\ hasCheckpoint = TRUE
  /\ forcePrecache = FALSE
  /\ InitProcVars
  /\ \E funds \in {0, StoredAgreement.availableFunds} :
       agreements = << StoredAgreement,
                       [OtherStoredAgreement EXCEPT !.availableFunds = funds] >>
  /\ pinnedRefs \in {{}, {StoredAgreement.dataReference, OtherStoredAgreement.dataReference}}
  /\ ledger = StoredAgreement.availableFunds
  /\ ledgerExists = TRUE

NextGC ==
  \/ RunStart
  \/ EmitGc
  \/ GcHandlers
  \/ EmitNewBlock
  \/ GcInvocation
  \/ Stop

SpecGC == InitGC /\ [][NextGC]_vars

\* Every pending continuation is run, and the emitters emit until stopped.
FairSpecGC ==
  /\ SpecGC
  /\ WF_vars(RunStart)
  /\ WF_vars(GcHandlers)
  /\ WF_vars(EmitNewBlock)
  /\ WF_vars(GcInvocation)

(***************************************************************************)
(* Properties of the garbage collector and of stop() (SpecGC).             *)
(***************************************************************************)
GcIds == {StoredAgreement.agreementReference, OtherStoredAgreement.agreementReference}

Sweeps == {sweeps[i] : i \in DOMAIN sweeps} \cup {lastSweep}

InSeq(x, seq) == \E k \in DOMAIN seq : seq[k] = x

OutOfFunds(id) == findByPk(id).isActive /\ Expired(findByPk(id))

CollectedByGc(id) ==
  /\ ~findByPk(id).isActive
  /\ \E sw \in Sweeps : /\ InSeq(id, sw.deactivated)
                        /\ InSeq(findByPk(id).dataReference, sw.unpinned)

\* C21: an active agreement whose funds do not pay for one more period is, while the
\* service runs and new blocks keep arriving, eventually unpinned by a GC sweep and
\* persisted as inactive, with no further chain event for it.
C21_ExpiredEventuallyCollected ==
  \A id \in GcIds :
    (procPc = "live" /\ OutOfFunds(id)) ~> (CollectedByGc(id) \/ stopped # {})

C21_Witness ==
  /\ lastDone.ev.event = "AgreementFundsPayout"
  /\ lastDone.outcome = "ok"
  /\ stopped = {}
  /\ CollectedByGc(StoredAgreement.agreementReference)
  /\ StoredAgreement.dataReference \notin pinnedRefs
  /\ lastSweep.outcome = "ok"

(***************************************************************************)
(* Notifications and persistence of one JobsManager.run (SpecJobs).        *)
(***************************************************************************)
TerminalCode ==
  IF runResult = "resolved" THEN "I_HASH_PINNED"
  ELSE IF IsNonRecoverable(runError) THEN "E_AGREEMENT_SIZE_LIMIT_EXCEEDED"
  ELSE "E_GENERAL"

\* C22: when run() has settled after n attempts the notifications are: a start
\* notification first in each attempt, after each attempt i < n the retry warning
\* with retryNumber i, the ceiling and the error of attempt i, and the terminal
\* notification last: 2n in all, 2 on a first-attempt success and 2N when every
\* attempt fails.
C22_NotificationSequence ==
  Settled =>
    /\ Len(broadcasts) = 2 * attempt
    /\ Len(attemptLog) = attempt
    /\ \A i \in 1..attempt : broadcasts[2 * i - 1] = Msg("I_HASH_START", 0, 0, NoError)
    /\ \A i \in 1..(attempt - 1) :
         /\ attemptLog[i] \notin {"ok", SizeKind}
         /\ broadcasts[2 * i] = Msg("W_HASH_RETRY", i, retries, MkError(attemptLog[i], i))
    /\ broadcasts[2 * attempt].code = TerminalCode
    /\ (runResult = "rejected" /\ ~IsNonRecoverable(runError)) => attempt = retries
    /\ (attemptLog[attempt] = "ok") <=> (runResult = "resolved")

C22_Witness ==
  /\ Settled
  /\ retries = 3
  /\ runResult = "rejected"
  /\ Len(broadcasts) = 6
  /\ broadcasts[4] = Msg("W_HASH_RETRY", 2, 3, MkError("StatError", 2))
  /\ broadcasts[6].code = "E_GENERAL"

\* C23: when run() has resolved the job's record reads FINISHED and the completed
\* notification is out; when it has rejected the record reads ERRORED and the failure
\* notification is out.
C23_SettledAfterPersistAndBroadcast ==
  runResult # "pending" =>
    /\ entityId \in DOMAIN jobStore
    /\ jobStore[entityId].state = IF runResult = "resolved" THEN "FINISHED" ELSE "ERRORED"
    /\ LastCode = TerminalCode
    /\ runResult = "rejected" => jobStore[entityId].errorMessage = runError

C23_Witness ==
  /\ runResult = "resolved"
  /\ attempt = 1
  /\ jobStore = << JobRecord("FINISHED", NoRetry, NoError) >>
  /\ LastCode = "I_HASH_PINNED"

(***************************************************************************)
(* SpecStop: SpecPinning with the new-block listener and stop().  The      *)
(* emitters are the two event sources; once stopped they emit nothing.     *)
(***************************************************************************)
\* One creation event for this offer, then creation events of another offer.
StopEvents(n, blk) ==
  IF n = 0 THEN {NewAgreementEvent(1, blk, OfferId)}
  ELSE {NewAgreementEvent(n + 1, blk, OtherOfferId)}

EmitStoppable ==
  /\ emitted < MaxHandled
  /\ "events" \notin stopped
  /\ \E ev \in StopEvents(emitted, blockNumber) : EmitNewEvent(ev)

StopInvocation ==
  \E i \in DOMAIN inflight :
    \/ HandlerUpsert(i)
    \/ HandlerPinStart(i)
    \/ HandlerPinDone(i)
    \/ HandlerBroadcast(i)

InitStop ==
  /\ retries = 2
  /\ expectedSize = NewAgreementEvent(0, 0, OfferId).size
  /\ cumulativeSize = expectedSize * BytesInMegabyte
  /\ hasSwarm = FALSE
  /\ script \in {<< "TimeoutError", "ok" >>, << "TimeoutError", "PinAddError" >>}
  /\ InitJobVars
  /\ hasCheckpoint = TRUE
  /\ forcePrecache = FALSE
  /\ InitProcVars
  /\ InitEmptyStore

ManagerSteps ==
  \/ ManagerAttempt /\ UNCHANGED procVars
  \/ JobRun /\ UNCHANGED procVars
  \/ PinJobPre /\ UNCHANGED procVars
  \/ PinJobStat /\ UNCHANGED procVars
  \/ PinJobPinAddInStore
  \/ JobAfter /\ UNCHANGED procVars
  \/ JobFinished /\ UNCHANGED procVars
  \/ JobErrored /\ UNCHANGED procVars
  \/ ManagerOnSuccess /\ UNCHANGED procVars
  \/ ManagerOnFailure /\ UNCHANGED procVars

\* The sweeps of this model find no expired agreement: they end with their scan.
GcScan == \E i \in DOMAIN sweeps : GcFindAll(i)

NextStop ==
  \/ RunStart
  \/ EmitStoppable
  \/ StopInvocation
  \/ ManagerSteps
  \/ EmitNewBlock
  \/ GcScan
  \/ Stop

SpecStop == InitStop /\ [][NextStop]_vars

\* The scheduler runs every continuation of a pending promise.
FairSpecStop == SpecStop /\ WF_vars(ManagerSteps) /\ WF_vars(StopInvocation)

(***************************************************************************)
(* Properties of stop() (SpecStop).                                        *)
(***************************************************************************)
JobInFlight == mgrPc \notin {"idle", "done"}

C24_NothingNewAfterStop ==
  stopped # {} => /\ dispatched' = dispatched
                  /\ Len(inflight') <= Len(inflight)
                  /\ Len(sweeps') <= Len(sweeps)
                  /\ stopped' = stopped

\* C24: after stop() no newEvent is dispatched to a handler and no newBlock starts a
\* GC sweep, while a Job in flight when stop() was called still settles with its
\* record FINISHED or ERRORED.
C24_StopDetachesAndJobsFinish ==
  /\ [][C24_NothingNewAfterStop]_vars
  /\ (stopped # {} /\ JobInFlight) ~>
       (Settled /\ jobStore[entityId].state \in {"FINISHED", "ERRORED"})

C24_Witness ==
  /\ stopped = {"events", "blocks"}
  /\ emitted < MaxHandled
  /\ gcListener
  /\ newEventListener = "processor"
  /\ mgrPc = "pinAdd"
  /\ attempt = 2

(***************************************************************************)
(* Properties of the replay and of the recovery pins (SpecHandoff).        *)
(***************************************************************************)
C25_OneAtATime ==
  /\ procPc = "replay" => Len(inflight) <= 1
  /\ procPc = "pins" => inflight = << >>

C25_Steps ==
  /\ (procPc = "replay" /\ replayIdx' # replayIdx) =>
       /\ inflight = << >>
       /\ replayIdx' = replayIdx + 1
       /\ dispatched' = Append(dispatched, dataQueue[replayIdx].seq)
       /\ replayIdx > 1 => lastDone.ev = dataQueue[replayIdx - 1]
  /\ (procPc = "replay" /\ procPc' = "pins") =>
       /\ inflight = << >>
       /\ replayIdx = Len(dataQueue) + 1
       /\ dataQueue # << >> => lastDone.ev = dataQueue[Len(dataQueue)]
       /\ pinRequests' = pinRequests

\* C25: the replay starts the pipeline of a queued event only when the pipeline of
\* the one before it has completed, and precache starts its recovery pin scan only
\* when the last queued event has completed.
C25_ReplayStrictlySequential == []C25_OneAtATime /\ [][C25_Steps]_vars

C25_Witness ==
  /\ procPc = "pins"
  /\ Len(dataQueue) = 2
  /\ dispatched = Seqs(dataQueue)
  /\ lastDone.ev = dataQueue[2]
  /\ lastDone.ev.event = "AgreementStopped"
  /\ lastDone.outcome = "ok"

(***************************************************************************)
(* SpecRecovery: precache over a store that holds two agreements of an     *)
(* earlier run, each with or without the funds of one more period.         *)
(***************************************************************************)
InitRecovery ==
  /\ InitIdleJob
  /\ hasCheckpoint = FALSE
  /\ forcePrecache = FALSE
  /\ InitProcVars
  /\ \E f1, f2 \in {0, StoredAgreement.availableFunds} :
       agreements = << [StoredAgreement EXCEPT !.availableFunds = f1],
                       [OtherStoredAgreement EXCEPT !.availableFunds = f2] >>
  /\ pinnedRefs = {}
  /\ ledger = agreements[1].availableFunds
  /\ ledgerExists = TRUE

SpecRecovery == InitRecovery /\ [][NextHandoff]_vars

PinJobOf(rows, ref) == {r \in DOMAIN rows : rows[r].name = ref}

\* C26: when the recovery scan of precache ends, a pin was issued for every stored
\* agreement with sufficient funds and for no agreement without them.
C26_Scan ==
  (procPc = "pins" /\ procPc' # "pins") =>
    \A i \in DOMAIN agreements :
      hasSufficientFunds(agreements[i]) <=>
        PinJobOf(jobStore', agreements[i].dataReference) # {}

C26_RecoveryPinsExactlyFunded == [][C26_Scan]_vars

\* C27: with an AgreementStopped as the last event processed for an agreement, the
\* recovery scan of precache issues no pin for that agreement.
C27_Scan ==
  (procPc = "pins" /\ pinRequests' > pinRequests /\ StopHandled(lastDone)
     /\ lastDone.outcome = "ok") =>
    Head(pinsTodo).agreementReference # lastDone.ev.agreementReference

C27_StoppedNeverPinnedAgain == [][C27_Scan]_vars

\* C28: once the source has signalled initFinished, run() does not reject: it goes on
\* to attach the live listener and the GC listener.
C28_RunCompletesAfterInitFinished ==
  initFinishedEmitted => procPc # "rejected"

C30_NoLostFundUpdate ==
  (Quiescent /\ ledgerExists) =>
    /\ findByPk(AgreementRef) # NoAgreement
    /\ findByPk(AgreementRef).availableFunds = ledger

(***************************************************************************)
(* Properties of Job.run() and of the Job record (checked under SpecJobs). *)
(***************************************************************************)
\* The hooks or the body of the current attempt are pending.
BodyPending == mgrPc \in {"pre", "body", "pinAdd", "after"}

\* C31: no Job record exists before run(); while the body is pending exactly one
\* record with the job's name exists and it is RUNNING; the
\* record is FINISHED only once the body has resolved, with the completion event.
C31_RunningPersistedBeforeBody ==
  /\ (attempt = 0 \/ (attempt = 1 /\ mgrPc = "jobRun")) => jobStore = << >>
  /\ BodyPending =>
       /\ Len(jobStore) = 1
       /\ jobStore[1].name = "job"
       /\ jobStore[1].state = "RUNNING"
  /\ mgrPc = "finished" => (jobStore[entityId].state = "RUNNING" /\ bodyError = NoError)
  /\ (jobStore # << >> /\ jobStore[Len(jobStore)].state = "FINISHED") =>
       /\ bodyCalls >= 1
       /\ bodyError = NoError
       /\ mgrPc \in {"onSuccess", "done"}
       /\ Len(attemptLog) = attempt
       /\ attemptLog[attempt] = "ok"

C31_Witness ==
  /\ mgrPc = "pinAdd"
  /\ attempt = 1
  /\ bodyCalls = 1
  /\ jobStore = << JobRecord("RUNNING", NoRetry, NoError) >>

\* Attempts so far whose pre hook let the body start.
BodiesStarted == Cardinality({i \in 1..attempt : ~PreFails(i)})

\* C32: when the body throws, Job.run() has called it once in that run, the failure
\* is signalled with the body's error and the record is ERRORED with that error.
C32_FailureReportedOnce ==
  /\ bodyCalls <= attempt
  /\ mgrPc = "onFailure" =>
       /\ bodyError # NoError
       /\ bodyCalls = BodiesStarted
       /\ jobError = bodyError
       /\ Len(attemptLog) = attempt
       /\ attemptLog[attempt] = bodyError.kind
       /\ jobStore[entityId].state = "ERRORED"
       /\ jobStore[entityId].errorMessage = bodyError

C32_Witness ==
  /\ mgrPc = "onFailure"
  /\ attempt = 1
  /\ bodyCalls = 1
  /\ bodyError.kind \in BodyErrorKinds
  /\ jobStore = << JobRecord("ERRORED", NoRetry, bodyError) >>

C33_OneRecord ==
  /\ Len(jobStore) <= 1
  /\ entityId = Len(jobStore)
  /\ jobStore # << >> => jobStore[1].name = "job"

C33_Kept == Len(jobStore') >= Len(jobStore)

\* C33: over all run() and retry() calls of a JobsManager.run at most one record of
\* the Job exists: every transition updates that record and none deletes it.
C33_AtMostOneRecord == []C33_OneRecord /\ [][C33_Kept]_vars

C33_Witness ==
  /\ Settled
  /\ attempt = 3
  /\ jobRetry = << 2, 3 >>
  /\ Len(jobStore) = 1
  /\ jobStore[1].state \in {"FINISHED", "ERRORED"}

\* Finished attempts whose pre hook succeeded.
AttemptsPastPre == Cardinality({i \in DOMAIN attemptLog : attemptLog[i] # "PreError"})

\* C34: in every attempt whose pre hook succeeded the after hook has run exactly once
\* when completion or failure is signalled, after a successful and after a failed
\* body, and the swarm connection of pre is closed by then.
C34_AfterRunsOncePerAttempt ==
  /\ BodyPending => afterCalls = AttemptsPastPre
  /\ mgrPc \in {"finished", "errored"} =>
       afterCalls = AttemptsPastPre + (IF bodyError.kind = "PreError" THEN 0 ELSE 1)
  /\ mgrPc \notin {"finished", "errored"} => afterCalls = AttemptsPastPre
  /\ ~BodyPending => ~swarmConnected

C34_Witness ==
  /\ mgrPc = "onFailure"
  /\ hasSwarm
  /\ attempt = 2
  /\ attemptLog[1] \in BodyErrorKinds
  /\ attemptLog[2] \in BodyErrorKinds
  /\ afterCalls = 2
  /\ ~swarmConnected

(***************************************************************************)
(* SpecDispatch: getProcessor(handlers)(event) in live mode, for handler   *)
(* groups whose list of events and whose handler functions differ.        *)
(***************************************************************************)
\* An event of the offer that no group of the model lists.
OfferEvent(seq, blk) ==
  [NoEvent EXCEPT !.seq = seq, !.event = "TotalCapacitySet", !.blockNumber = blk,
                  !.provider = OfferId]

DispatchEvents(seq, blk) ==
  { AgreementEvent(seq, blk, "AgreementFundsDeposited", 100),
    AgreementEvent(seq, blk, "AgreementFundsPayout", 20),
    OfferEvent(seq, blk) }

\* Handler groups: the agreement group, with an event left out of its list or a
\* handler function left out of its object.
HandlerConfigs ==
  { {buildHandler(AgreementEventNames \ fn, AgreementEventNames \ ev)} :
      fn \in {{}, {"AgreementFundsPayout"}},
      ev \in {{}, {"AgreementFundsDeposited"}, {"AgreementFundsPayout"}} }

\* getProcessor's processor behind its error boundary, up to the first await of the
\* handlers: Promise.all over process(event) of the groups that list the event.
\* buildHandler's process rejects with 'Unknown event' without calling anything.
ProcessorInvocation(ev, via) ==
  LET inv == [NoInvocation EXCEPT !.ev = ev, !.via = via]
      listing == ListingGroups(ev.event)
  IN  IF listing = {}
        THEN [inv EXCEPT !.outcome = "noop", !.settled = errorHandler("noop")]
      ELSE IF \E g \in listing : ~isValidEvent(ev.event, g.handlers)
        THEN [inv EXCEPT !.outcome = "UnknownEvent",
                         !.settled = errorHandler("UnknownEvent")]
      ELSE CallbackInvocation(ev, via)

DispatchDirect(ev) ==
  LET inv == ProcessorInvocation(ev, "direct")
  IN  /\ procPc = "live"
      /\ emitted' = emitted + 1
      /\ Deliver(ev)
      /\ dispatched' = Append(dispatched, ev.seq)
      /\ IF inv.pc = "done"
           THEN inflight' = inflight /\ lastDone' = inv
           ELSE inflight' = Append(inflight, inv) /\ UNCHANGED lastDone
      /\ overlapped' = (overlapped \/ inflight # << >>)
      /\ UNCHANGED << gcVars, jobVars, procConfig, lifecycleVars, procPc, listenerVars, loopVars,
                      initFinishedEmitted, blockNumber, stopped, storeVars,
                      dispatchedEarly, lost, pinRequests, unpinRequests >>

EmitDispatch ==
  /\ emitted < MaxHandled
  /\ \E ev \in DispatchEvents(emitted + 1, blockNumber) : DispatchDirect(ev)

DispatchHandlers ==
  \E i \in DOMAIN inflight :
    \/ HandlerFind(i)
    \/ HandlerSave(i)

InitDispatch ==
  /\ InitIdleJob
  /\ hasCheckpoint = TRUE
  /\ forcePrecache = FALSE
  /\ handlers \in HandlerConfigs
  /\ InitProcState
  /\ agreements = << StoredAgreement >>
  /\ pinnedRefs = {StoredAgreement.dataReference}
  /\ ledger = StoredAgreement.availableFunds
  /\ ledgerExists = TRUE

NextDispatch ==
  \/ RunStart
  \/ EmitDispatch
  \/ DispatchHandlers

SpecDispatch == InitDispatch /\ [][NextDispatch]_vars

Listed(name) == ListingGroups(name) # {}

HasHandler(name) == \A g \in ListingGroups(name) : name \in g.handlers

C35_Settled ==
  lastDone.via = "direct" =>
    /\ lastDone.settled = "resolved"
    /\ (Listed(lastDone.ev.event) /\ ~HasHandler(lastDone.ev.event)) =>
         (lastDone.outcome = "UnknownEvent" /\ ~lastDone.found)
    /\ ~Listed(lastDone.ev.event) => (lastDone.outcome = "noop" /\ ~lastDone.found)

C35_OnlyHandlersRun ==
  \A i \in DOMAIN inflight :
    Listed(inflight[i].ev.event) /\ HasHandler(inflight[i].ev.event)

C35_Mutation ==
  /\ agreements' # agreements =>
       \E i \in DOMAIN inflight :
         /\ Listed(inflight[i].ev.event) /\ HasHandler(inflight[i].ev.event)
         /\ inflight'= RemoveAt(inflight, i)
  /\ procPc = "live" => procPc' = "live" /\ newEventListener' = newEventListener

\* C35: an event listed by a group that has no handler function for it is rejected
\* with 'Unknown event', the error boundary resolves, no handler runs for it and no
\* Agreement changes, and the listener stays attached; an event no group lists
\* resolves as a no-op.
C35_UnknownAndUnlistedEvents ==
  /\ [](C35_Settled /\ C35_OnlyHandlersRun)
  /\ [][C35_Mutation]_vars

\* A payout without handler function was rejected (the chain's ledger went down by
\* 20, the stored funds did not), and the deposit after it was handled.
C35_Witness ==
  /\ lastDone.ev.seq = 2
  /\ lastDone.ev.event = "AgreementFundsDeposited"
  /\ lastDone.outcome = "ok"
  /\ dispatched = << 1, 2 >>
  /\ Listed("AgreementFundsPayout")
  /\ ~HasHandler("AgreementFundsPayout")
  /\ ledger = 130
  /\ findByPk(AgreementRef).availableFunds = 150

(***************************************************************************)
(* Properties of the NewAgreement handler (SpecPinning).                   *)
(***************************************************************************)
\* C36: the NewAgreement handler broadcasts the agreement-created notification only
\* after its pin resolved; when the pin rejects nothing is broadcast and the
\* Agreement upserted before the pin stays in the store.
C36_BroadcastOnlyAfterPin ==
  \A inv \in Invocations :
    Creation(inv) =>
      /\ inv.pc \in {"pin", "pinning", "broadcast"} =>
           (inv.msgs = << >> /\ findByPk(AgreementRef) # NoAgreement)
      /\ inv.msgs # << >> =>
           /\ inv.msgs = << "I_AGREEMENT_NEW" >>
           /\ inv.pins = 1
           /\ mgrPc = "done"
           /\ runResult = "resolved"
      /\ (inv.pc = "done" /\ runResult = "rejected") =>
           /\ inv.outcome = "PinError"
           /\ inv.msgs = << >>
           /\ findByPk(AgreementRef) # NoAgreement

C36_Witness ==
  /\ Creation(lastDone)
  /\ lastDone.outcome = "PinError"
  /\ lastDone.pins = 1
  /\ lastDone.msgs = << >>
  /\ runResult = "rejected"
  /\ findByPk(AgreementRef) = NewAgreementData(lastDone.ev)

(***************************************************************************)
(* SpecCache: CacheEventsProcessor.precache().  The cache service answers  *)
(* with the offer and its agreements; each agreement is pinned or unpinned *)
(* and then upserted into the local store.                                 *)
(***************************************************************************)
\* An agreement as the cache service returns it.
RemoteAgreement(a, active) == [a EXCEPT !.isActive = active, !.availableFunds = 70]

\* services.agreement.find({ query: { offerId } }): up to two agreements of the offer.
RemoteLists ==
  LET As == {RemoteAgreement(StoredAgreement, b) : b \in BOOLEAN}
      Bs == {RemoteAgreement(OtherStoredAgreement, b) : b \in BOOLEAN}
  IN  {<< >>} \cup {<< a >> : a \in As} \cup {<< b >> : b \in Bs}
        \cup {<< a, b >> : a \in As, b \in Bs} \cup {<< b, a >> : a \in As, b \in Bs}

\* Agreement.upsert(agreement) with every column given: the row is replaced or inserted.
upsertRow(table, row) ==
  IF \E i \in DOMAIN table : table[i].agreementReference = row.agreementReference
    THEN [i \in DOMAIN table |->
            IF table[i].agreementReference = row.agreementReference THEN row
            ELSE table[i]]
    ELSE Append(table, row)

CacheCall(op, a, size, failed) ==
  [op |-> op, ref |-> a.dataReference, size |-> size, failed |-> failed]

cacheRest ==
  << gcVars, jobConfig, mgrPc, attempt, runVars, jobState, jobRetry, jobError, entityId,
     pinJobVars, jobObs, procConfig, listenerVars, loopVars, inflight, sourceVars,
     dispatched, dispatchedEarly, lost, overlapped, lastDone, ledger, ledgerExists,
     initCalls, initErrors >>

\* precache(): initialize() when needed, the offer and its agreements are fetched.
CachePrecacheStart ==
  /\ procPc = "init"
  /\ InitializeIfNeeded
  /\ \E offerExists \in BOOLEAN :
       IF offerExists
         THEN /\ procPc' = "cachePins"
              /\ \E list \in RemoteLists : cacheAgreements' = list
         ELSE \* throw new Error('Offer not exist')
              /\ procPc' = "rejected"
              /\ UNCHANGED cacheAgreements
  /\ UNCHANGED << cacheRest, cacheIdx, cacheCalls, jobStore, storeVars, pinRequests,
                  unpinRequests >>

\* A mutant: a failed pin or unpin rejects precache().
CachePinOrUnpinRethrows ==
  /\ procPc = "cachePins"
  /\ cacheIdx <= Len(cacheAgreements)
  /\ LET a == cacheAgreements[cacheIdx]
     IN  IF a.isActive
           THEN /\ pinRequests' = pinRequests + 1
                /\ \E ok \in BOOLEAN :
                     /\ jobStore' = PinJobRows(jobStore, a.dataReference, ok)
                     /\ pinnedRefs' = IF ok THEN pinnedRefs \cup {a.dataReference}
                                      ELSE pinnedRefs
                     /\ cacheCalls' = Append(cacheCalls, CacheCall("pin", a, a.size + 1, ~ok))
                     /\ procPc' = IF ok THEN "cacheUpsert" ELSE "rejected"
                /\ UNCHANGED unpinRequests
           ELSE /\ unpinRequests' = unpinRequests + 1
                /\ \E res \in UnpinOutcomes(a.dataReference) :
                     /\ pinnedRefs' = IF res = "ok" THEN pinnedRefs \ {a.dataReference}
                                      ELSE pinnedRefs
                     /\ cacheCalls' = Append(cacheCalls, CacheCall("unpin", a, 0, UnpinRaises(res)))
                     /\ procPc' = IF UnpinRaises(res) THEN "rejected" ELSE "cacheUpsert"
                /\ UNCHANGED << pinRequests, jobStore >>
  /\ UNCHANGED << cacheRest, cacheAgreements, cacheIdx, agreements, initialized,
                  emittersCreated >>

\* `await this.manager.pin(dataReference, size + 1).catch(...)` for an active
\* agreement, `await this.manager.unpin(dataReference).catch(...)` otherwise.
CachePinOrUnpin ==
  /\ procPc = "cachePins"
  /\ cacheIdx <= Len(cacheAgreements)
  /\ LET a == cacheAgreements[cacheIdx]
     IN  IF a.isActive
           THEN /\ pinRequests' = pinRequests + 1
                /\ \E ok \in BOOLEAN :
                     /\ jobStore' = PinJobRows(jobStore, a.dataReference, ok)
                     /\ pinnedRefs' = IF ok THEN pinnedRefs \cup {a.dataReference}
                                      ELSE pinnedRefs
                     /\ cacheCalls' = Append(cacheCalls, CacheCall("pin", a, a.size + 1, ~ok))
                /\ UNCHANGED unpinRequests
           ELSE /\ unpinRequests' = unpinRequests + 1
                /\ \E res \in UnpinOutcomes(a.dataReference) :
                     /\ pinnedRefs' = IF res = "ok" THEN pinnedRefs \ {a.dataReference}
                                      ELSE pinnedRefs
                     /\ cacheCalls' = Append(cacheCalls, CacheCall("unpin", a, 0, UnpinRaises(res)))
                /\ UNCHANGED << pinRequests, jobStore >>
  /\ procPc' = "cacheUpsert"
  /\ UNCHANGED << cacheRest, cacheAgreements, cacheIdx, agreements, initialized,
                  emittersCreated >>

\* `await Agreement.upsert(agreement)`, then the next agreement.
CacheUpsert ==
  /\ procPc = "cacheUpsert"
  /\ agreements' = upsertRow(agreements, cacheAgreements[cacheIdx])
  /\ cacheIdx' = cacheIdx + 1
  /\ procPc' = "cachePins"
  /\ UNCHANGED << cacheRest, cacheAgreements, cacheCalls, jobStore, pinnedRefs,
                  pinRequests, unpinRequests, initialized, emittersCreated >>

\* The loop is over: precache() resolves.
CachePrecacheDone ==
  /\ procPc = "cachePins"
  /\ cacheIdx > Len(cacheAgreements)
  /\ procPc' = "cacheDone"
  /\ UNCHANGED << cacheRest, cacheVars, jobStore, storeVars, pinRequests, unpinRequests,
                  initialized, emittersCreated >>

InitCache ==
  /\ InitIdleJob
  /\ hasCheckpoint = FALSE
  /\ forcePrecache = FALSE
  /\ InitProcVars
  /\ InitStore

NextCache ==
  \/ CachePrecacheStart
  \/ CachePinOrUnpin
  \/ CacheUpsert
  \/ CachePrecacheDone

SpecCache == InitCache /\ [][NextCache]_vars

\* Every await of precache() settles.
FairSpecCache == SpecCache /\ WF_vars(NextCache)

\* The agreements of the returned list precache has dealt with so far.
CacheVisited == 1..(cacheIdx - 1)

C37_InTurn ==
  /\ Len(cacheCalls) = (cacheIdx - 1) + (IF procPc = "cacheUpsert" THEN 1 ELSE 0)
  /\ \A k \in DOMAIN cacheCalls :
       LET a == cacheAgreements[k]
           c == cacheCalls[k]
       IN  /\ c.ref = a.dataReference
           /\ a.isActive => (c.op = "pin" /\ c.size = a.size + 1)
           /\ ~a.isActive => c.op = "unpin"
  /\ \A k \in CacheVisited : findByPk(cacheAgreements[k].agreementReference) = cacheAgreements[k]
  /\ procPc = "cacheDone" => cacheIdx = Len(cacheAgreements) + 1
  /\ procPc = "rejected" => cacheCalls = << >>

\* C37: precache takes the returned agreements in turn: a pin with size + 1 for an
\* active one, an unpin otherwise; a failed pin or unpin is swallowed, the agreement
\* is upserted all the same, and the loop reaches the end of the list.
C37_CachePrecacheSwallowsFailures ==
  /\ []C37_InTurn
  /\ (procPc \in {"cachePins", "cacheUpsert"}) ~> (procPc = "cacheDone")

C37_Witness ==
  /\ procPc = "cacheDone"
  /\ Len(cacheCalls) = 2
  /\ cacheCalls[1].op = "pin" /\ cacheCalls[1].failed
  /\ cacheCalls[2].op = "unpin" /\ cacheCalls[2].failed
  /\ Len(agreements) = 2
  /\ \A k \in 1..2 : findByPk(cacheAgreements[k].agreementReference) = cacheAgreements[k]

(***************************************************************************)
(* SpecInit: the lifecycle of an event processor.  The application calls   *)
(* initialize() and run() (index.ts); run() and precache() initialize the  *)
(* processor themselves when nobody did.                                   *)
(***************************************************************************)
initRest ==
  << gcVars, jobVars, procConfig, cacheVars, procPc, listenerVars, loopVars, inflight,
     sourceVars, storeVars, procObs >>

\* A mutant: initialize() has no guard and builds new emitters, without listeners.
InitializeUnguarded ==
  /\ initCalls < MaxInitCalls
  /\ initCalls' = initCalls + 1
  /\ initialized' = TRUE
  /\ emittersCreated' = emittersCreated + 1
  /\ newEventListener' = "none"
  /\ initFinishedListener' = FALSE
  /\ gcListener' = FALSE
  /\ UNCHANGED << gcVars, jobVars, procConfig, cacheVars, procPc, loopVars, inflight,
                  sourceVars, storeVars, procObs, initErrors >>

\* initialize(): throws 'Already Initialized' on an initialized processor, else
\* creates the emitters (the services of the cache processor) and sets the flag.
Initialize ==
  /\ initCalls < MaxInitCalls
  /\ initCalls' = initCalls + 1
  /\ IF initialized
       THEN /\ initErrors' = initErrors + 1
            /\ UNCHANGED << initialized, emittersCreated >>
       ELSE /\ initialized' = TRUE
            /\ emittersCreated' = emittersCreated + 1
            /\ UNCHANGED initErrors
  /\ UNCHANGED initRest

\* CacheEventsProcessor.run(): initialize() when needed, then the processor is
\* subscribed to 'created' and 'updated' of every service.
CacheRun ==
  /\ procPc = "init"
  /\ InitializeIfNeeded
  /\ procPc' = "cacheLive"
  /\ newEventListener' = "processor"
  /\ UNCHANGED << gcVars, jobVars, procConfig, cacheVars, initFinishedListener, gcListener,
                  loopVars, inflight, sourceVars, storeVars, procObs, initCalls,
                  initErrors >>

InitInit ==
  /\ InitIdleJob
  /\ hasCheckpoint \in BOOLEAN
  /\ forcePrecache \in BOOLEAN
  /\ InitProcVars
  /\ InitStore

NextInit ==
  \/ Initialize
  \/ RunStart
  \/ EmitInitFinished
  \/ ReplayDone
  \/ PrecachePin
  \/ AttachLive
  \/ CacheRun
  \/ NextCache

SpecInit == InitInit /\ [][NextInit]_vars

C38_Once ==
  /\ emittersCreated <= 1
  /\ initialized <=> emittersCreated = 1
  /\ procPc # "init" => initialized
  /\ initErrors <= initCalls

C38_Calls ==
  /\ (initCalls' = initCalls + 1 /\ initialized) =>
       /\ initErrors' = initErrors + 1
       /\ emittersCreated' = emittersCreated
       /\ listenerVars' = listenerVars
  /\ (initCalls' = initCalls + 1 /\ ~initialized) =>
       /\ initErrors' = initErrors
       /\ emittersCreated' = 1
  /\ initCalls' = initCalls => initErrors' = initErrors

\* C38: a processor is initialized once: initialize() on an initialized processor
\* throws and leaves the emitters alone, run() and precache() initialize only an
\* uninitialized processor and never trip the guard, and the emitters are created
\* exactly once.
C38_InitializedAtMostOnce == []C38_Once /\ [][C38_Calls]_vars

\* initialize() then run(), as the application does, and a second initialize().
C38_Witness ==
  /\ procPc = "live"
  /\ initCalls = 2
  /\ initErrors = 1
  /\ emittersCreated = 1
  /\ newEventListener = "processor"
  /\ gcListener

=============================================================================
